---- MODULE Spec2Model ----
(***************************************************************************)
(* EasyDeL: the incremental decode cache of the Flax attention layers      *)
(* (GPT-J, OPT, Mistral, Falcon), the model wrappers that thread the cache *)
(* through a generation session, the attention bias of the cache-less      *)
(* forward pass, and the shape validation of smart_flash_attention.        *)
(*                                                                         *)
(* A tensor is modelled along its sequence axis: a key/value tensor of     *)
(* shape [batch, seq, heads, head_dim] is the sequence of its seq slices   *)
(* (each slice one abstract value) together with its shape; every write of *)
(* the code covers the whole batch/heads/head_dim extent of a slice.       *)
(***************************************************************************)
EXTENDS Integers, Sequences, FiniteSets, TLC

(* ------------------------------ bounds --------------------------------- *)
MaxLen == 5
MaxStep == 3
NumTok == 2
NumLayers == 2
MaxOver == 1
MaxPad == 1
MaxBatch == 1
MaxSeq == 3

(* ------------------------- configuration values ------------------------ *)
NumHeads == 4
NumKVHeads == 2
HeadDim == 8
MaxPositionEmbeddings == MaxLen + 1

ZeroFill == 0

CacheArchs == {"gptj", "opt", "mistral", "falcon"}
Layers == 1..NumLayers
Toks == 1..NumTok
NoCache == <<>>

VARIABLES arch, cache, hist, last, bias_call, flash_call,
          drop_call, kv_call, shard_call, mesh_call, config, rules_call,
          setup_call, transform_call, alibi_call, rotary_call, names_call,
          wrap_call, backend_cfg, trainer

\* The variables of the generation session and of the bias and flash calls.
sessionVars == <<arch, cache, hist, last, bias_call, flash_call>>

\* The variables of the calls of the dropout plumbing, the grouped-query
\* helpers, the sharding helpers, the mesh construction, the configuration
\* upgrade and the partition rules.
utilVars == <<drop_call, kv_call, shard_call, mesh_call, config, rules_call>>

\* The variables of the attention set-up, the checkpoint conversion, the
\* alibi and rotary tables, the axis-name collection, the wrapper call, the
\* backend selection and the training loop.
auxVars == <<setup_call, transform_call, alibi_call, rotary_call, names_call,
             wrap_call, backend_cfg, trainer>>

vars == <<sessionVars, utilVars, auxVars>>

(* ------------------------------ helpers -------------------------------- *)
Min(a, b) == IF a < b THEN a ELSE b
Max(a, b) == IF a > b THEN a ELSE b

\* Evaluates v once and hands the value to F.
Strict(v, F(_)) == CHOOSE y \in {F(z) : z \in {v}} : TRUE

\* k_proj / v_proj of layer l applied to the hidden state of token h: an
\* injective stand-in, never equal to the zero fill.
KProj(l, h) == 100 + 10 * l + h
VProj(l, h) == 200 + 10 * l + h

Zeros(n) == [i \in 1..n |-> ZeroFill]

\* An update slice that is not clamped: the rows that fall past the end of
\* the operand are dropped.
DynamicUpdateSlice_DropPastEnd(operand, update, start) ==
    [i \in 1..Len(operand) |->
        IF i > start /\ i <= start + Len(update) THEN update[i - start] ELSE operand[i]]

\* jax.lax.dynamic_update_slice along the sequence axis: the start index is
\* clamped so that the update fits inside the operand.
DynamicUpdateSlice(operand, update, start) ==
    LET n == Len(operand)
        m == Len(update)
        st == Max(0, Min(start, n - m))
    IN [i \in 1..n |-> IF i > st /\ i <= st + m THEN update[i - st] ELSE operand[i]]

\* make_causal_mask: entry (i, j), 0-based, is 1 iff j <= i.
CausalEntry(i, j) == j <= i

\* lax.dynamic_slice(causal_mask, (0, 0, shift, 0), (1, 1, q, k)): the start
\* row is clamped so that q rows fit inside max_position_embeddings.
CausalSlice(shift, q, k) ==
    LET st == Max(0, Min(shift, MaxPositionEmbeddings - q))
    IN [r \in 1..q |-> [j \in 1..k |-> CausalEntry(st + r - 1, j - 1)]]

\* flax combine_masks: logical AND, a one-row mask broadcasts over the rows.
CombineMasks(a, b) ==
    LET q == Max(Len(a), Len(b))
        Row(m, r) == IF Len(m) = 1 THEN m[1] ELSE m[r]
    IN [r \in 1..q |-> [j \in 1..Len(a[1]) |-> Row(a, r)[j] /\ Row(b, r)[j]]]

\* jnp.broadcast_to(jnp.expand_dims(attention_mask, (-3, -2)), causal.shape)
BroadcastRows(pad, q) == [r \in 1..q |-> pad]

\* jnp.arange(max_length) < bound, broadcast over the q query rows.
PadMask(bound, q, ml) == [r \in 1..q |-> [j \in 1..ml |-> (j - 1) < bound]]

\* self.causal_mask[:, :, :q, :k]
CausalWindow(q, k) == [r \in 1..q |-> [j \in 1..k |-> CausalEntry(r - 1, j - 1)]]

NoVars == <<>>
NoMask == <<>>

\* The key and value tensors an attention layer computes for the rows of a
\* step; heads is the head count of the key tensor handed to the cache.
KeyTensor(l, rows, b, heads) ==
    [rows |-> [r \in 1..Len(rows) |-> KProj(l, rows[r])],
     shape |-> <<b, Len(rows), heads, HeadDim>>]
ValueTensor(l, rows, b, heads) ==
    [rows |-> [r \in 1..Len(rows) |-> VProj(l, rows[r])],
     shape |-> <<b, Len(rows), heads, HeadDim>>]

(* ----------------------- the cache update functions -------------------- *)
\* Result of a cache update: the layer's cache variables afterwards, the
\* branch taken, and the attention mask handed back to the caller.
ConcatResult(v, branch, mask, err) == [vars |-> v, branch |-> branch, mask |-> mask, err |-> err]

\* The variables self.variable("cache", ...) declares when they do not exist.
AllocVars(kshape, vshape) ==
    [cached_key |-> Zeros(kshape[2]), cached_value |-> Zeros(vshape[2]),
     cache_index |-> 0, key_shape |-> kshape, value_shape |-> vshape]

\* `chex.Array(0, dtype=jnp.int32)`, the initialiser of the cache_index
\* variable: chex.Array is a typing.Union alias, and calling it raises
\* TypeError. flax runs the initialiser when it declares the variable.
ChexArrayCall == "TypeError"

\* GPT-J cache update whose pad mask compares against the cursor before the
\* advance, so the positions just written stay masked.
GPTJ_concatenate_to_cache_StaleBound(v, key, value, q, attention_mask) ==
    IF v = NoVars
    THEN ConcatResult(NoVars, "alloc", NoMask, ChexArrayCall)
    ELSE LET max_length == Len(v.cached_key)
             cur_index == v.cache_index
         IN IF Len(key.rows) > max_length
            THEN ConcatResult(v, "update", NoMask, "TypeError")
            ELSE ConcatResult(
                   [v EXCEPT !.cached_key = DynamicUpdateSlice(v.cached_key, key.rows, cur_index),
                             !.cached_value = DynamicUpdateSlice(v.cached_value, value.rows, cur_index),
                             !.cache_index = v.cache_index + q],
                   "update",
                   CombineMasks(PadMask(cur_index, q, max_length), attention_mask),
                   "none")

\* FlaxGPTJAttention._concatenate_to_cache: without cache variables the
\* declaration of cache_index raises; with them, the update branch (a
\* dynamic_update_slice whose update is longer than the operand raises
\* TypeError).
GPTJ_concatenate_to_cache(v, key, value, q, attention_mask) ==
    IF v = NoVars
    THEN ConcatResult(NoVars, "alloc", NoMask, ChexArrayCall)
    ELSE LET max_length == Len(v.cached_key)
             cur_index == v.cache_index
         IN IF Len(key.rows) > max_length
            THEN ConcatResult(v, "update", NoMask, "TypeError")
            ELSE ConcatResult(
                   [v EXCEPT !.cached_key = DynamicUpdateSlice(v.cached_key, key.rows, cur_index),
                             !.cached_value = DynamicUpdateSlice(v.cached_value, value.rows, cur_index),
                             !.cache_index = v.cache_index + q],
                   "update",
                   CombineMasks(PadMask(cur_index + q, q, max_length), attention_mask),
                   "none")

\* OPT cache update that writes every step at the start of the buffer.
OPT_concatenate_to_cache_WriteAtZero(v, key, value, q, attention_mask) ==
    IF v = NoVars
    THEN ConcatResult(NoVars, "alloc", NoMask, ChexArrayCall)
    ELSE LET max_length == Len(v.cached_key)
             cur_index == v.cache_index
         IN IF Len(key.rows) > max_length
            THEN ConcatResult(v, "update", NoMask, "TypeError")
            ELSE ConcatResult(
                   [v EXCEPT !.cached_key = DynamicUpdateSlice(v.cached_key, key.rows, 0),
                             !.cached_value = DynamicUpdateSlice(v.cached_value, value.rows, 0),
                             !.cache_index = v.cache_index + q],
                   "update",
                   CombineMasks(PadMask(cur_index + q, q, max_length), attention_mask),
                   "none")

\* FlaxOPTAttention._concatenate_to_cache: as the GPT-J one.
OPT_concatenate_to_cache(v, key, value, q, attention_mask) ==
    IF v = NoVars
    THEN ConcatResult(NoVars, "alloc", NoMask, ChexArrayCall)
    ELSE LET max_length == Len(v.cached_key)
             cur_index == v.cache_index
         IN IF Len(key.rows) > max_length
            THEN ConcatResult(v, "update", NoMask, "TypeError")
            ELSE ConcatResult(
                   [v EXCEPT !.cached_key = DynamicUpdateSlice(v.cached_key, key.rows, cur_index),
                             !.cached_value = DynamicUpdateSlice(v.cached_value, value.rows, cur_index),
                             !.cache_index = v.cache_index + q],
                   "update",
                   CombineMasks(PadMask(cur_index + q, q, max_length), attention_mask),
                   "none")

\* Mistral cache update that advances the cursor by one per call whatever
\* the number of query rows.
Mistral_concatenate_to_cache_AdvanceOne(v, key, value, q, attention_mask) ==
    IF v = NoVars
    THEN ConcatResult(AllocVars(key.shape, key.shape), "alloc", attention_mask, "none")
    ELSE LET ml == Len(v.cached_key)
             index_after == v.cache_index + 1
         IN IF Len(key.rows) > ml
            THEN ConcatResult(v, "update", NoMask, "TypeError")
            ELSE ConcatResult(
                   [v EXCEPT !.cached_key = DynamicUpdateSlice(v.cached_key, key.rows, v.cache_index),
                             !.cached_value = DynamicUpdateSlice(v.cached_value, value.rows, v.cache_index),
                             !.cache_index = index_after],
                   "update",
                   CombineMasks(PadMask(index_after, q, ml), attention_mask),
                   "none")

\* FlaxMistralAttention.concatenate_to_cache_: both buffers are declared with
\* key.shape, and the pad mask reads the cursor after it has been advanced.
Mistral_concatenate_to_cache_(v, key, value, q, attention_mask) ==
    IF v = NoVars
    THEN ConcatResult(AllocVars(key.shape, key.shape), "alloc", attention_mask, "none")
    ELSE LET ml == Len(v.cached_key)
             index_after == v.cache_index + q
         IN IF Len(key.rows) > ml
            THEN ConcatResult(v, "update", NoMask, "TypeError")
            ELSE ConcatResult(
                   [v EXCEPT !.cached_key = DynamicUpdateSlice(v.cached_key, key.rows, v.cache_index),
                             !.cached_value = DynamicUpdateSlice(v.cached_value, value.rows, v.cache_index),
                             !.cache_index = index_after],
                   "update",
                   CombineMasks(PadMask(index_after, q, ml), attention_mask),
                   "none")

(* ------------------- the attention layers, cache part ------------------ *)
\* What one attention layer did in a call: its cache variables afterwards,
\* the branch of the cache update, the mask handed to the cache update, the
\* mask it returned, the mask the attention weights finally use, the error.
AttnResult(v, branch, mask_in, mask_out, final, err) ==
    [vars |-> v, branch |-> branch, mask_in |-> mask_in, mask_out |-> mask_out,
     final |-> final, err |-> err]

\* GPT-J attention that declares the cache variables afresh whenever
\* init_cache is set, also when they already exist.
GPTJ_attention_ReallocOnInit(l, v, rows, pad, b, init_cache) ==
    LET q == Len(rows)
        key == KeyTensor(l, rows, b, NumHeads)
        value == ValueTensor(l, rows, b, NumHeads)
        causal == IF v # NoVars
                  THEN CausalSlice(v.cache_index, q, Len(v.cached_key))
                  ELSE CausalWindow(q, q)
        am == CombineMasks(BroadcastRows(pad, q), causal)
    IN IF v # NoVars \/ init_cache
       THEN LET r == GPTJ_concatenate_to_cache(IF init_cache THEN NoVars ELSE v,
                                               key, value, q, am)
            IN AttnResult(r.vars, r.branch,
                          am, r.mask, r.mask, r.err)
       ELSE AttnResult(v, "none", am, am, am, "none")

\* FlaxGPTJAttention.__call__: the causal window is cut at the cursor read
\* before the update and ANDed with the padding mask, then the cache update.
GPTJ_attention(l, v, rows, pad, b, init_cache) ==
    LET q == Len(rows)
        key == KeyTensor(l, rows, b, NumHeads)
        value == ValueTensor(l, rows, b, NumHeads)
        causal == IF v # NoVars
                  THEN CausalSlice(v.cache_index, q, Len(v.cached_key))
                  ELSE CausalWindow(q, q)
        am == CombineMasks(BroadcastRows(pad, q), causal)
    IN IF v # NoVars \/ init_cache
       THEN LET r == GPTJ_concatenate_to_cache(v, key, value, q, am)
            IN AttnResult(r.vars, r.branch, am, r.mask, r.mask, r.err)
       ELSE AttnResult(v, "none", am, am, am, "none")

\* FlaxOPTAttention.__call__ (decoder self-attention, causal): as GPT-J, but
\* the attention output is computed only inside the cache branch, so a call
\* with neither a cache nor init_cache returns an unbound local.
OPT_attention(l, v, rows, pad, b, init_cache) ==
    LET q == Len(rows)
        key == KeyTensor(l, rows, b, NumHeads)
        value == ValueTensor(l, rows, b, NumHeads)
        causal == IF v # NoVars
                  THEN CausalSlice(v.cache_index, q, Len(v.cached_key))
                  ELSE CausalWindow(q, q)
        am == CombineMasks(BroadcastRows(pad, q), causal)
    IN IF v # NoVars \/ init_cache
       THEN LET r == OPT_concatenate_to_cache(v, key, value, q, am)
            IN AttnResult(r.vars, r.branch, am, r.mask, r.mask, r.err)
       ELSE AttnResult(v, "none", am, am, am, "UnboundLocalError")

\* Mistral attention whose dense branch runs a second cache update on the
\* cache the first one produced.
Mistral_attention_SecondUpdate(l, v, rows, pad, b, init_cache) ==
    LET q == Len(rows)
        heads == NumKVHeads * (NumHeads \div NumKVHeads)
        key == KeyTensor(l, rows, b, heads)
        value == ValueTensor(l, rows, b, heads)
        am == <<pad>>
        r1 == IF v # NoVars \/ init_cache
              THEN Mistral_concatenate_to_cache_(v, key, value, q, am)
              ELSE ConcatResult(v, "none", am, "none")
        r == IF r1.branch = "update" /\ r1.err = "none"
             THEN Mistral_concatenate_to_cache_(r1.vars, key, value, q, am)
             ELSE r1
        k_l == IF r.branch = "update" THEN Len(r.vars.cached_key) ELSE q
        causal == IF r.vars # NoVars
                  THEN CausalSlice(r.vars.cache_index, q, Len(r.vars.cached_key))
                  ELSE CausalWindow(q, k_l)
    IN IF r.err # "none"
       THEN AttnResult(v, r.branch, am, NoMask, NoMask, r.err)
       ELSE IF init_cache
            THEN AttnResult(r.vars, r.branch, am, r.mask, CombineMasks(r.mask, causal), "AttributeError")
            ELSE AttnResult(r.vars, r.branch, am, r.mask, CombineMasks(r.mask, causal), "none")

\* FlaxMistralAttention.__call__ with use_flash_attention = False (the
\* default): t_rotary repeats the key/value heads up to num_attention_heads,
\* the cache update runs first, the causal window is cut at the cursor read
\* after it, and the dense branch calls self._concatenate_to_cache, which the
\* class does not define, whenever init_cache is set.
Mistral_attention(l, v, rows, pad, b, init_cache) ==
    LET q == Len(rows)
        heads == NumKVHeads * (NumHeads \div NumKVHeads)
        key == KeyTensor(l, rows, b, heads)
        value == ValueTensor(l, rows, b, heads)
        am == <<pad>>
        r == IF v # NoVars \/ init_cache
             THEN Mistral_concatenate_to_cache_(v, key, value, q, am)
             ELSE ConcatResult(v, "none", am, "none")
        k_l == IF r.branch = "update" THEN Len(r.vars.cached_key) ELSE q
        causal == IF r.vars # NoVars
                  THEN CausalSlice(r.vars.cache_index, q, Len(r.vars.cached_key))
                  ELSE CausalWindow(q, k_l)
    IN IF r.err # "none"
       THEN AttnResult(v, r.branch, am, NoMask, NoMask, r.err)
       ELSE IF init_cache
            THEN AttnResult(r.vars, r.branch, am, r.mask, CombineMasks(r.mask, causal), "AttributeError")
            ELSE AttnResult(r.vars, r.branch, am, r.mask, CombineMasks(r.mask, causal), "none")

\* FlaxFalconAttention.__call__: never reads or writes the cache collection
\* (its _concatenate_to_cache is not called) and uses the padding mask alone.
Falcon_attention(l, v, rows, pad, b) ==
    AttnResult(v, "none", <<pad>>, <<pad>>, <<pad>>, "none")

(* --------------------------- the module stack -------------------------- *)
Attention(a, l, v, rows, pad, b, init_cache) ==
    CASE a = "gptj" -> GPTJ_attention(l, v, rows, pad, b, init_cache)
      [] a = "opt" -> OPT_attention(l, v, rows, pad, b, init_cache)
      [] a = "mistral" -> Mistral_attention(l, v, rows, pad, b, init_cache)
      [] a = "falcon" -> Falcon_attention(l, v, rows, pad, b)

Skipped(v) == AttnResult(v, "skipped", NoMask, NoMask, NoMask, "none")

LayerVars(c, l) == IF c = NoCache THEN NoVars ELSE c[l]

\* The outcome of the block loop given each layer's attention result: the
\* first layer that raises ends the call and the caller keeps the cache it
\* passed in; otherwise the mutated cache collection is returned.
BlockResult(c, res) ==
    LET bad == {l \in Layers : res[l].err # "none"}
        first == IF bad = {} THEN NumLayers + 1 ELSE CHOOSE l \in bad : \A m \in bad : l <= m
        lay == [l \in Layers |-> IF l <= first THEN res[l] ELSE Skipped(LayerVars(c, l))]
        out == [l \in Layers |-> res[l].vars]
    IN [err |-> IF bad = {} THEN "none" ELSE res[first].err,
        cache |-> IF bad # {} THEN c
                  ELSE IF \A l \in Layers : out[l] = NoVars THEN NoCache ELSE out,
        lay |-> lay]

\* The block collection's `for block in self.blocks` loop under module.init /
\* module.apply with the cache collection mutable: every layer runs its
\* attention on its own cache variables in the same call.
BlockCollection(a, c, rows, pad, b, init_cache) ==
    Strict([l \in Layers |-> Attention(a, l, LayerVars(c, l), rows, pad, b, init_cache)],
           LAMBDA res : BlockResult(c, res))

NotRun(c) == [l \in Layers |-> Skipped(LayerVars(c, l))]

\* jnp.ones((batch_size, max_length)) as attention mask and as input_ids
Ones(n) == [j \in 1..n |-> TRUE]
OnesIds(n) == [j \in 1..n |-> 1]

\* prepare_inputs_for_generation: the caller's attention mask (p left-padding
\* positions, then tokens) written at offset 0 into an all-ones mask of
\* max_length positions.
PadMasks(n) == {DynamicUpdateSlice(Ones(n), [j \in 1..(p + 1) |-> j > p], 0) : p \in 0..MaxPad}

\* init_cache(batch_size, max_length): module.init on an all-ones input of
\* max_length tokens with init_cache=True; returns init_variables["cache"].
\* The Falcon modules take no init_cache argument.
init_cache_(a, b, max_length) ==
    IF a = "falcon"
    THEN [err |-> "TypeError", cache |-> NoCache, lay |-> NotRun(NoCache)]
    ELSE BlockCollection(a, NoCache, OnesIds(max_length), Ones(max_length), b, TRUE)

\* inputs_embeds + embed_positions(position_ids): numpy broadcasting of the
\* sequence axis of the token rows against n position rows.
BroadcastSeq(rows, n) ==
    IF Len(rows) = n THEN rows
    ELSE IF Len(rows) = 1 THEN [r \in 1..n |-> rows[1]]
    ELSE IF n = 1 THEN rows
    ELSE <<>>

\* The wrappers' __call__ with a non-empty past_key_values: the position_ids
\* check, then module.apply with init_cache=False and the cache mutable.
\* The OPT wrapper derives position_ids from the attention mask instead of
\* raising, so the rows of the step take the mask's length.
WrapperCall(a, c, rows, pad, b, pos_given) ==
    IF a \in {"gptj", "mistral", "falcon"} /\ ~pos_given
    THEN [err |-> "ValueError", cache |-> c, lay |-> NotRun(c), rows |-> rows]
    ELSE LET eff == IF a = "opt" /\ ~pos_given THEN BroadcastSeq(rows, Len(pad)) ELSE rows
         IN IF eff = <<>>
            THEN [err |-> "TypeError", cache |-> c, lay |-> NotRun(c), rows |-> rows]
            ELSE LET r == BlockCollection(a, c, eff, pad, b, FALSE)
                 IN [err |-> r.err, cache |-> r.cache, lay |-> r.lay, rows |-> eff]

(* ---------------- the attention bias of a cache-less call -------------- *)
\* jnp.finfo(dtype).min, the most negative representable value.
FloatMin == -1000

\* lax.select(attention_mask > 0, 0.0, finfo.min)
SelectBias(mask) == [r \in 1..Len(mask) |-> [j \in 1..Len(mask[r]) |-> IF mask[r][j] THEN 0 ELSE FloatMin]]

\* Floating-point addition of a small number to a bias entry: finfo.min
\* absorbs it.
FloatAdd(x, y) == IF x = FloatMin THEN FloatMin ELSE x + y

\* The mask itself handed over as the bias operand: 1 where set, 0 elsewhere.
MaskAsBias(mask) == [r \in 1..Len(mask) |-> [j \in 1..Len(mask[r]) |-> IF mask[r][j] THEN 1 ELSE 0]]

BiasResult(bias, err) == [bias |-> bias, err |-> err]

\* FlaxGPTJAttention.__call__ without cache variables and init_cache=False
GPTJ_bias(pad) ==
    LET r == GPTJ_attention(1, NoVars, OnesIds(Len(pad)), pad, 1, FALSE)
    IN BiasResult(SelectBias(r.final), r.err)

\* FlaxOPTAttention.__call__ without cache variables and init_cache=False:
\* the bias is formed only inside the cache branch.
OPT_bias(pad) ==
    LET r == OPT_attention(1, NoVars, OnesIds(Len(pad)), pad, 1, FALSE)
    IN IF r.err # "none" THEN BiasResult(NoMask, r.err) ELSE BiasResult(SelectBias(r.final), r.err)

\* FlaxMistralAttention.__call__ without cache, dense branch: the combined
\* boolean mask is the fourth operand of ring_attention_standard.
Mistral_bias(pad) ==
    LET r == Mistral_attention(1, NoVars, OnesIds(Len(pad)), pad, 1, FALSE)
    IN BiasResult(MaskAsBias(r.final), r.err)

\* FlaxFalconAttention.__call__: the bias is selected from the padding mask
\* [b, 1, 1, k] alone and broadcasts over the query rows.
Falcon_bias(pad) ==
    LET r == Falcon_attention(1, NoVars, OnesIds(Len(pad)), pad, 1)
    IN BiasResult(BroadcastRows(SelectBias(r.final)[1], Len(pad)), r.err)

\* FlaxGPTNeoXAttention.__call__: the causal bias, then `attn += attention_mask`
\* adds the 0/1 padding mask itself.
NeoX_bias(pad) ==
    LET s == Len(pad)
        bias == SelectBias(CausalWindow(s, s))
    IN BiasResult([r \in 1..s |-> [j \in 1..s |-> FloatAdd(bias[r][j], IF pad[j] THEN 1 ELSE 0)]],
                  "none")

(* --------------------------- smart_flash_attention --------------------- *)
\* The value None passed for an array argument: it has no shape.
None == <<"None">>

FlashResult(err, msg, backend_selected, kernel) ==
    [err |-> err, msg |-> msg, backend_selected |-> backend_selected, kernel |-> kernel]

\* get_flash_attention: the kernel and do_shard_map of the platform.
get_flash_attention(platform) ==
    CASE platform = "gpu" -> [err |-> "none", fn |-> "ring_flash_attention_gpu", do_shard_map |-> TRUE]
      [] platform = "tpu" -> [err |-> "none", fn |-> "tpu_flash_attention", do_shard_map |-> FALSE]
      [] OTHER -> [err |-> "ValueError", fn |-> "none", do_shard_map |-> FALSE]

\* A dispatch that asserts the mesh on the tpu path as well.
FlashDispatch_MeshEverywhere(platform, mesh) ==
    LET g == get_flash_attention(platform)
    IN IF g.err # "none" THEN FlashResult(g.err, "Unsupported platform", FALSE, "none")
       ELSE IF ~mesh THEN FlashResult("AssertionError", "mesh", TRUE, "none")
       ELSE IF g.do_shard_map THEN FlashResult("none", "none", TRUE, g.fn)
       ELSE FlashResult("none", "none", TRUE, "jax_flash_attn_tpu.flash_attention")

\* What follows the shape validation: backend selection, the mesh assertion
\* of the shard_map path, then the kernel.
FlashDispatch(platform, mesh) ==
    LET g == get_flash_attention(platform)
    IN IF g.err # "none" THEN FlashResult(g.err, "Unsupported platform", FALSE, "none")
       ELSE IF g.do_shard_map
            THEN IF ~mesh THEN FlashResult("AssertionError", "mesh", TRUE, "none")
                 ELSE FlashResult("none", "none", TRUE, g.fn)
            ELSE FlashResult("none", "none", TRUE, "jax_flash_attn_tpu.flash_attention")

\* smart_flash_attention with backend selection ahead of the validation.
smart_flash_attention_SelectFirst(q, k, v, bias, num_attention_heads, q_seq_len, kv_seq_len, head_dims, platform, mesh) ==
    LET g == get_flash_attention(platform)
    IN IF g.err # "none" THEN FlashResult(g.err, "Unsupported platform", FALSE, "none")
       ELSE IF Len(q) = 0 THEN FlashResult("IndexError", "shape[0]", TRUE, "none")
       ELSE LET batch_size == q[1]
            IN IF Len(k) = 0 THEN FlashResult("IndexError", "shape[0]", TRUE, "none")
               ELSE IF batch_size # k[1] THEN FlashResult("AssertionError", "batch", TRUE, "none")
               ELSE IF Len(v) = 0 THEN FlashResult("IndexError", "shape[0]", TRUE, "none")
               ELSE IF k[1] # v[1] THEN FlashResult("AssertionError", "batch", TRUE, "none")
               ELSE IF \/ q # <<batch_size, num_attention_heads, q_seq_len, head_dims>>
                       \/ k # <<batch_size, num_attention_heads, kv_seq_len, head_dims>>
                       \/ v # <<batch_size, num_attention_heads, kv_seq_len, head_dims>>
                       \/ bias # <<batch_size, num_attention_heads, q_seq_len, kv_seq_len>>
                    THEN FlashResult("AssertionError", "shape", TRUE, "none")
                    ELSE FlashDispatch(platform, mesh)

\* smart_flash_attention on the shapes of q, k, v and bias: `q.shape[0]`,
\* the chained batch comparison (k.shape[0] is read first, v.shape[0] only
\* when the first comparison holds), the four shape assertions in the order
\* q, k, v, bias (`bias.shape` of a None bias raises AttributeError), and
\* only then get_flash_attention.
smart_flash_attention(q, k, v, bias, num_attention_heads, q_seq_len, kv_seq_len, head_dims, platform, mesh) ==
    IF Len(q) = 0 THEN FlashResult("IndexError", "shape[0]", FALSE, "none")
    ELSE LET batch_size == q[1]
         IN IF Len(k) = 0 THEN FlashResult("IndexError", "shape[0]", FALSE, "none")
            ELSE IF batch_size # k[1] THEN FlashResult("AssertionError", "batch", FALSE, "none")
            ELSE IF Len(v) = 0 THEN FlashResult("IndexError", "shape[0]", FALSE, "none")
            ELSE IF k[1] # v[1] THEN FlashResult("AssertionError", "batch", FALSE, "none")
            ELSE IF \/ q # <<batch_size, num_attention_heads, q_seq_len, head_dims>>
                    \/ k # <<batch_size, num_attention_heads, kv_seq_len, head_dims>>
                    \/ v # <<batch_size, num_attention_heads, kv_seq_len, head_dims>>
                 THEN FlashResult("AssertionError", "shape", FALSE, "none")
            ELSE IF bias = None
                 THEN FlashResult("AttributeError", "bias.shape", FALSE, "none")
            ELSE IF bias # <<batch_size, num_attention_heads, q_seq_len, kv_seq_len>>
                 THEN FlashResult("AssertionError", "shape", FALSE, "none")
                 ELSE FlashDispatch(platform, mesh)

(* ------------------------ the decoding session ------------------------- *)
LastRec(call, err, ic, pos, n_in, rows, pad, lay) ==
    [call |-> call, err |-> err, init_cache |-> ic, pos |-> pos, n_in |-> n_in,
     rows |-> rows, pad |-> pad, lay |-> lay]

Idle == LastRec("none", "none", FALSE, TRUE, 0, <<>>, <<>>, NotRun(NoCache))

NoCall == <<>>

\* No utility call is in progress.
UtilIdle ==
    /\ drop_call = NoCall
    /\ kv_call = NoCall
    /\ shard_call = NoCall
    /\ mesh_call = NoCall
    /\ config = NoCall
    /\ rules_call = NoCall

AuxIdle ==
    /\ setup_call = NoCall
    /\ transform_call = NoCall
    /\ alibi_call = NoCall
    /\ rotary_call = NoCall
    /\ names_call = NoCall
    /\ wrap_call = NoCall
    /\ backend_cfg = NoCall
    /\ trainer = NoCall

\* Number of rows the successful calls of the session have run so far.
Fed == IF hist = <<>> THEN 0 ELSE hist[Len(hist)].total

Batch(c) == c[1].key_shape[1]
MaxLength(c) == Len(c[1].cached_key)

\* The token rows of one call: 1..MaxStep tokens, neighbours distinct.
RowSets == {[i \in 1..n |-> ((t + i) % NumTok) + 1] : t \in Toks, n \in 1..MaxStep}

Init ==
    /\ UtilIdle
    /\ AuxIdle
    /\ arch \in CacheArchs
    /\ cache = NoCache
    /\ hist = <<>>
    /\ last = Idle
    /\ bias_call = NoCall
    /\ flash_call = NoCall

\* model.init_cache(batch_size, max_length) at the start of a session
InitCache ==
    /\ cache = NoCache
    /\ last.call = "none"
    /\ \E b \in 1..MaxBatch, ml \in {MaxLen} :
         \E r \in {init_cache_(arch, b, ml)} :
            /\ cache' = r.cache
            /\ last' = LastRec("init_cache", r.err, TRUE, TRUE, ml, OnesIds(ml), Ones(ml), r.lay)
    /\ UNCHANGED <<arch, hist, bias_call, flash_call, utilVars, auxVars>>

\* The caller hands the wrapper a cache mapping it built itself (zero
\* buffers of the layout the layer declares, cursor 0): past_key_values is an
\* argument of __call__, and no init_cache returns a cache.
AdoptCache ==
    /\ cache = NoCache
    /\ \E b \in 1..MaxBatch, ml \in {MaxLen} :
         LET heads == IF arch = "mistral" THEN NumKVHeads * (NumHeads \div NumKVHeads) ELSE NumHeads
             shape == <<b, ml, heads, HeadDim>>
         IN /\ cache' = [l \in Layers |-> AllocVars(shape, shape)]
            /\ last' = LastRec("adopt", "none", FALSE, TRUE, ml, <<>>, Ones(ml), NotRun(NoCache))
    /\ UNCHANGED <<arch, hist, bias_call, flash_call, utilVars, auxVars>>

\* model(input_ids, attention_mask, position_ids, past_key_values=cache)
Call ==
    /\ cache # NoCache
    /\ \E rows \in RowSets, pad \in PadMasks(MaxLength(cache)), pos_given \in BOOLEAN :
         \E r \in {WrapperCall(arch, cache, rows, pad, Batch(cache), pos_given)} :
            /\ Fed + Len(r.rows) <= MaxLength(cache) + MaxOver
            /\ cache' = r.cache
            /\ last' = LastRec("call", r.err, FALSE, pos_given, Len(rows), r.rows, pad, r.lay)
            /\ hist' = IF r.err = "none"
                       THEN Append(hist, [n_in |-> Len(rows), rows |-> r.rows, pos |-> pos_given,
                                          total |-> Fed + Len(r.rows)])
                       ELSE hist
    /\ UNCHANGED <<arch, bias_call, flash_call, utilVars, auxVars>>

\* module.apply({"params", "cache"}, ..., init_cache=True, mutable=["cache"])
\* on a cache that already exists.
ApplyInitCache ==
    /\ cache # NoCache
    /\ arch # "falcon"
    /\ \E rows \in RowSets, pad \in PadMasks(MaxLength(cache)) :
         \E r \in {BlockCollection(arch, cache, rows, pad, Batch(cache), TRUE)} :
            /\ Fed + Len(rows) <= MaxLength(cache) + MaxOver
            /\ cache' = r.cache
            /\ last' = LastRec("apply", r.err, TRUE, TRUE, Len(rows), rows, pad, r.lay)
            /\ hist' = IF r.err = "none"
                       THEN Append(hist, [n_in |-> Len(rows), rows |-> rows, pos |-> TRUE,
                                          total |-> Fed + Len(rows)])
                       ELSE hist
    /\ UNCHANGED <<arch, bias_call, flash_call, utilVars, auxVars>>

Next == InitCache \/ AdoptCache \/ Call \/ ApplyInitCache

Spec == Init /\ [][Next]_vars

(* ------------------- the cache-less forward pass ----------------------- *)
BiasArchs == {"gptj", "opt", "mistral", "falcon", "neox"}

\* Padding masks of 1..MaxSeq positions.
BiasPads == UNION {[1..n -> BOOLEAN] : n \in 1..MaxSeq}

BiasInit ==
    /\ UtilIdle
    /\ AuxIdle
    /\ arch = "none"
    /\ cache = NoCache
    /\ hist = <<>>
    /\ last = Idle
    /\ flash_call = NoCall
    /\ bias_call \in {[arch |-> a, pad |-> p, done |-> FALSE, out |-> BiasResult(NoMask, "none")] :
                        a \in BiasArchs, p \in BiasPads}

BiasForward(a, out) ==
    /\ bias_call.arch = a
    /\ ~bias_call.done
    /\ bias_call' = [bias_call EXCEPT !.done = TRUE, !.out = out]
    /\ UNCHANGED <<arch, cache, hist, last, flash_call, utilVars, auxVars>>

GPTJForward == BiasForward("gptj", GPTJ_bias(bias_call.pad))
OPTForward == BiasForward("opt", OPT_bias(bias_call.pad))
MistralForward == BiasForward("mistral", Mistral_bias(bias_call.pad))
FalconForward == BiasForward("falcon", Falcon_bias(bias_call.pad))
NeoXForward == BiasForward("neox", NeoX_bias(bias_call.pad))

BiasNext == GPTJForward \/ OPTForward \/ MistralForward \/ FalconForward \/ NeoXForward

BiasSpec == BiasInit /\ [][BiasNext]_vars

(* ---------------------- calls of smart_flash_attention ------------------ *)
Platforms == {"gpu", "tpu", "cpu"}

\* The shape the call expects for q, for k and v, and for bias.
GoodQ == <<MaxBatch, NumHeads, MaxSeq, HeadDim>>
GoodKV == <<MaxBatch, NumHeads, MaxSeq + 1, HeadDim>>
GoodBias == <<MaxBatch, NumHeads, MaxSeq, MaxSeq + 1>>

\* A shape, the shape with one dimension off by one, with the last dimension
\* missing, and the shape of a scalar.
ShapeVariants(s) ==
    {s, <<>>, SubSeq(s, 1, 3)} \cup {[s EXCEPT ![i] = s[i] + 1] : i \in {1, 3}}

WellShaped(c) ==
    /\ Len(c.q) = 4
    /\ c.q = <<c.q[1], NumHeads, MaxSeq, HeadDim>>
    /\ c.k = <<c.q[1], NumHeads, MaxSeq + 1, HeadDim>>
    /\ c.v = <<c.q[1], NumHeads, MaxSeq + 1, HeadDim>>
    /\ c.bias = <<c.q[1], NumHeads, MaxSeq, MaxSeq + 1>>

FlashInit ==
    /\ UtilIdle
    /\ AuxIdle
    /\ arch = "none"
    /\ cache = NoCache
    /\ hist = <<>>
    /\ last = Idle
    /\ bias_call = NoCall
    /\ flash_call \in {[q |-> q, k |-> k, v |-> v, bias |-> bias, platform |-> p, mesh |-> m,
                        done |-> FALSE, out |-> FlashResult("none", "none", FALSE, "none")] :
                          q \in ShapeVariants(GoodQ), k \in ShapeVariants(GoodKV),
                          v \in ShapeVariants(GoodKV), bias \in ShapeVariants(GoodBias),
                          p \in Platforms, m \in BOOLEAN}

SmartFlashAttention ==
    /\ ~flash_call.done
    /\ flash_call' = [flash_call EXCEPT
                        !.done = TRUE,
                        !.out = smart_flash_attention(flash_call.q, flash_call.k, flash_call.v,
                                                      flash_call.bias, NumHeads, MaxSeq, MaxSeq + 1,
                                                      HeadDim, flash_call.platform, flash_call.mesh)]
    /\ UNCHANGED <<arch, cache, hist, last, bias_call, utilVars, auxVars>>

FlashNext == SmartFlashAttention

FlashSpec == FlashInit /\ [][FlashNext]_vars

(* ================================ claims =============================== *)
\* The architectures whose attention layer runs a cache update function.
UpdArchs == {"gptj", "opt", "mistral"}

\* The last step was a model call or module apply that ran to completion.
StepDone == last.call \in {"call", "apply"} /\ last.err = "none"

SingleTokenSteps == \A i \in 1..Len(hist) : Len(hist[i].rows) = 1

\* C1: starting from a freshly allocated cache (cursor 0), after N <= max_length
\* sequential single-token decode steps every layer's cache_index equals N and,
\* for every i < N, slot i of cached_key (cached_value) holds the key (value)
\* computed at step i+1.
C1_CacheMonotonicity ==
    (arch \in UpdArchs /\ cache # NoCache /\ SingleTokenSteps /\ Len(hist) <= MaxLength(cache)) =>
        \A l \in Layers :
            /\ cache[l].cache_index = Len(hist)
            /\ \A i \in 1..Len(hist) :
                 /\ cache[l].cached_key[i] = KProj(l, hist[i].rows[1])
                 /\ cache[l].cached_value[i] = VProj(l, hist[i].rows[1])

\* N = max_length single-token steps have filled the whole buffer.
C1_Witness ==
    /\ arch \in UpdArchs /\ cache # NoCache
    /\ SingleTokenSteps /\ Len(hist) = MaxLength(cache)
    /\ cache[NumLayers].cache_index = MaxLength(cache)
    /\ cache[NumLayers].cached_key[MaxLength(cache)] # ZeroFill

\* C2: a step on an existing cache with cursor c and s rows, c + s <= max_length,
\* sets positions [c, c+s) of cached_key and cached_value to the step's key and
\* value slices, leaves every other position unchanged, and sets cache_index
\* to c + s.
C2_StepFrame ==
    [][(/\ arch \in UpdArchs /\ cache # NoCache
        /\ last'.call \in {"call", "apply"} /\ last'.err = "none"
        /\ \A l \in Layers : cache[l].cache_index + Len(last'.rows) <= MaxLength(cache))
       => \A l \in Layers :
            LET c == cache[l].cache_index
                s == Len(last'.rows)
            IN /\ cache'[l].cache_index = c + s
               /\ \A j \in 1..MaxLength(cache) :
                    IF j > c /\ j <= c + s
                    THEN /\ cache'[l].cached_key[j] = KProj(l, last'.rows[j - c])
                         /\ cache'[l].cached_value[j] = VProj(l, last'.rows[j - c])
                    ELSE /\ cache'[l].cached_key[j] = cache[l].cached_key[j]
                         /\ cache'[l].cached_value[j] = cache[l].cached_value[j]]_vars

\* A multi-row step landed in the middle of the buffer.
C2_Witness ==
    /\ arch \in UpdArchs /\ cache # NoCache /\ StepDone
    /\ Len(hist) >= 2 /\ Len(last.rows) >= 2
    /\ Fed < MaxLength(cache)
    /\ cache[1].cache_index = Fed
    /\ cache[1].cached_key[Fed] # ZeroFill

\* Row r of a mask that has either one row per query row or a single
\* broadcast row.
MaskRow(m, r) == IF Len(m) = 1 THEN m[1] ELSE m[r]

\* C4: after a step that advances the cursor from c to c+s, the mask the cache
\* update returns allows position j, for every query row, iff j < c+s and the
\* incoming mask allows j; the GPT-J/OPT form (old cursor + step length) and
\* the Mistral form (cursor read after the increment) give this same mask.
C4_ReturnedMask ==
    (arch \in UpdArchs /\ cache # NoCache /\ StepDone) =>
        \A l \in Layers :
            LET new_cursor == cache[l].cache_index
                lay == last.lay[l]
            IN /\ Len(lay.mask_out) = Len(last.rows)
               /\ \A r \in 1..Len(last.rows) : \A j \in 1..MaxLength(cache) :
                    lay.mask_out[r][j] <=> ((j - 1) < new_cursor /\ MaskRow(lay.mask_in, r)[j])

\* The returned mask of a step hides a padded position and a not yet written
\* position and shows a written one.
C4_Witness ==
    /\ arch \in UpdArchs /\ cache # NoCache /\ StepDone
    /\ Len(last.rows) >= 2 /\ Fed < MaxLength(cache)
    /\ ~last.pad[1]
    /\ ~last.lay[1].mask_out[1][1]
    /\ last.lay[1].mask_out[Len(last.rows)][Fed]
    /\ ~last.lay[1].mask_out[1][MaxLength(cache)]

PromptThenDecode ==
    /\ Len(hist) >= 1
    /\ \A i \in 1..Len(hist) : hist[i].pos
    /\ \A i \in 2..Len(hist) : hist[i].n_in = 1

\* C7: a session that allocates its cache with init_cache holds a cache from
\* then on, and after a P-token prompt and G single-token steps
\* (P + G <= max_length) every layer has cache_index = P + G.
C7_EndToEnd ==
    /\ (last.call = "init_cache") => cache # NoCache
    /\ (/\ arch \in UpdArchs /\ cache # NoCache /\ PromptThenDecode
        /\ hist[1].n_in + Len(hist) - 1 <= MaxLength(cache))
          => \A l \in Layers : cache[l].cache_index = hist[1].n_in + (Len(hist) - 1)

\* The number of key/value heads the configuration gives the architecture.
KVHeads(a) == IF a = "mistral" THEN NumKVHeads ELSE NumHeads

\* C3: init_cache(batch_size, max_length) on a layer without cache variables
\* allocates zero-filled cached_key and cached_value of shape
\* [batch, max_length, num_kv_heads, head_dim] and a cursor of 0, takes the
\* allocating branch only (no write, no cursor advance), for every
\* architecture whose attention runs a cache update.
C3_InitCacheAllocates ==
    (arch \in UpdArchs /\ last.call = "init_cache") =>
        /\ last.err = "none"
        /\ cache # NoCache
        /\ \A l \in Layers :
             /\ last.lay[l].branch = "alloc"
             /\ cache[l].cache_index = 0
             /\ cache[l].cached_key = Zeros(last.n_in)
             /\ cache[l].cached_value = Zeros(last.n_in)
             /\ cache[l].key_shape[1] \in 1..MaxBatch
             /\ cache[l].key_shape = <<cache[l].key_shape[1], last.n_in, KVHeads(arch), HeadDim>>
             /\ cache[l].value_shape = cache[l].key_shape

\* C8: without a cache every architecture's bias entry (i, j) is 0 iff j <= i
\* and the padding mask allows j, and is the most negative representable
\* value otherwise.
C8_BiasIsCausalAndPadding ==
    (bias_call # NoCall /\ bias_call.done) =>
        LET n == Len(bias_call.pad)
            bias == bias_call.out.bias
        IN /\ bias_call.out.err = "none"
           /\ Len(bias) = n
           /\ \A i \in 1..n : \A j \in 1..n :
                bias[i][j] = IF j <= i /\ bias_call.pad[j] THEN 0 ELSE FloatMin

\* C9: a wrapper call with a cache and without position_ids fails with the
\* explicit ValueError before the module is applied, leaving the cache as it
\* was.
C9_MissingPositionIdsRejected ==
    [][(cache # NoCache /\ last'.call = "call" /\ ~last'.pos)
          => (last'.err = "ValueError" /\ cache' = cache)]_vars

ScalarOperand(c) ==
    \/ Len(c.q) = 0
    \/ Len(c.k) = 0
    \/ (c.q[1] = c.k[1] /\ Len(c.v) = 0)

C11_KernelOnlyOnGpuOrTpu ==
    (flash_call # NoCall /\ flash_call.done /\ WellShaped(flash_call)) =>
        LET out == flash_call.out
            p == flash_call.platform
        IN /\ (out.kernel # "none") <=> (p = "tpu" \/ (p = "gpu" /\ flash_call.mesh))
           /\ (out.kernel # "none") => out.err = "none"
           /\ p \notin {"gpu", "tpu"} =>
                (out.err = "ValueError" /\ out.msg = "Unsupported platform")
           /\ (p = "gpu" /\ ~flash_call.mesh) =>
                (out.err = "AssertionError" /\ out.msg = "mesh")
           /\ p = "tpu" =>
                (out.err = "none" /\ out.kernel = "jax_flash_attn_tpu.flash_attention")

\* A well-shaped tpu call without a mesh reached the tpu kernel.
C11_Witness ==
    /\ flash_call # NoCall /\ flash_call.done /\ WellShaped(flash_call)
    /\ flash_call.platform = "tpu" /\ ~flash_call.mesh
    /\ flash_call.out.err = "none"
    /\ flash_call.out.kernel = "jax_flash_attn_tpu.flash_attention"

(* ------------- calls of smart_flash_attention without a bias ------------ *)
\* q, k and v have the shapes the call expects.
QKVWellShaped(c) ==
    /\ c.q = GoodQ
    /\ c.k = GoodKV
    /\ c.v = GoodKV

\* smart_flash_attention(..., bias=None, ...): bias has no default in the
\* signature, so a call without a bias passes None for it.
FlashNoBiasInit ==
    /\ UtilIdle
    /\ AuxIdle
    /\ arch = "none"
    /\ cache = NoCache
    /\ hist = <<>>
    /\ last = Idle
    /\ bias_call = NoCall
    /\ flash_call \in {[q |-> q, k |-> k, v |-> v, bias |-> None, platform |-> p, mesh |-> m,
                        done |-> FALSE, out |-> FlashResult("none", "none", FALSE, "none")] :
                          q \in ShapeVariants(GoodQ), k \in ShapeVariants(GoodKV),
                          v \in ShapeVariants(GoodKV), p \in Platforms, m \in BOOLEAN}

FlashNoBiasSpec == FlashNoBiasInit /\ [][FlashNext]_vars

\* C12: a call without a bias does not fail for the lack of it: with q, k, v
\* well-shaped and a platform that has a kernel (tpu, or gpu with a mesh) the
\* call completes and reaches the kernel with a default bias.
C12_MissingBiasDegrades ==
    (/\ flash_call # NoCall /\ flash_call.done /\ flash_call.bias = None
     /\ QKVWellShaped(flash_call)
     /\ (flash_call.platform = "tpu" \/ (flash_call.platform = "gpu" /\ flash_call.mesh)))
       => (flash_call.out.err = "none" /\ flash_call.out.kernel # "none")

(* ------------------------------------------------------------------------ *)
\* No generation session and no bias or flash call is in progress.
SessionIdle ==
    /\ arch = "none"
    /\ cache = NoCache
    /\ hist = <<>>
    /\ last = Idle
    /\ bias_call = NoCall
    /\ flash_call = NoCall

(* --------------------- dropout on attention weights -------------------- *)
\* Dropout rates are 0..MaxRate tenths.
MaxRate == 2

\* What an attention path did about dropout: whether it asked the "dropout"
\* RNG stream for a key, the kernel it called, whether that kernel takes a
\* deterministic flag and what it was given, and what the kernel did.
DropResult(rng_drawn, kernel, has_flag, kernel_deterministic, kernel_rate, kernel_rng, dropout, err) ==
    [rng_drawn |-> rng_drawn, kernel |-> kernel, has_flag |-> has_flag,
     kernel_deterministic |-> kernel_deterministic, kernel_rate |-> kernel_rate,
     kernel_rng |-> kernel_rng, dropout |-> dropout, err |-> err]

\* self.make_rng("dropout") in a call whose rngs hold no "dropout" stream.
NoRngStream == DropResult(TRUE, "none", FALSE, TRUE, 0, FALSE, "none", "InvalidRngError")

\* The kernels that take (dropout_rng, rate, deterministic) drop attention
\* weights when not deterministic and rate > 0, and need the key for it.
KernelDropout(dropout_rng, dropout_rate, deterministic) ==
    IF ~deterministic /\ dropout_rate > 0
    THEN IF dropout_rng THEN "applied" ELSE "TypeError"
    ELSE "none"

\* A call of such a kernel.
KernelCall(kernel, rng_drawn, dropout_rng, dropout_rate, deterministic) ==
    LET d == KernelDropout(dropout_rng, dropout_rate, deterministic)
    IN DropResult(rng_drawn, kernel, TRUE, deterministic, dropout_rate, dropout_rng,
                  IF d = "TypeError" THEN "attempted" ELSE d,
                  IF d = "TypeError" THEN "TypeError" ELSE "none")

\* A call of a kernel without dropout arguments.
PlainKernelCall(kernel, rng_drawn) ==
    DropResult(rng_drawn, kernel, FALSE, TRUE, 0, FALSE, "none", "none")

\* FlaxGPTJAttention.__call__: the key is drawn when not deterministic and
\* attn_pdrop > 0; the dense path passes deterministic on, the flash path
\* passes `not deterministic and attn_pdrop > 0.0` as the kernel's
\* deterministic argument.
GPTJ_dropout(deterministic, attn_pdrop, has_rng, use_flash_attention) ==
    LET draw == ~deterministic /\ attn_pdrop > 0
    IN IF draw /\ ~has_rng THEN NoRngStream
       ELSE IF use_flash_attention
            THEN KernelCall("efficient_attention", draw, draw, attn_pdrop,
                            ~deterministic /\ attn_pdrop > 0)
            ELSE KernelCall("dot_product_attention_weights", draw, draw, attn_pdrop, deterministic)

\* FlaxOPTAttention.__call__ (cache branch)
OPT_dropout(deterministic, dropout, has_rng) ==
    LET draw == ~deterministic /\ dropout > 0
    IN IF draw /\ ~has_rng THEN NoRngStream
       ELSE KernelCall("dot_product_attention_weights", draw, draw, dropout, deterministic)

\* FlaxMistralAttention.__call__: the flash path hands deterministic,
\* attn_pdrop and the key to smart_flash_attention, whose gpu kernel takes
\* them and whose tpu kernel takes none of them; the dense path calls
\* ring_attention_standard without any of them.
Mistral_dropout(deterministic, attn_pdrop, has_rng, use_flash_attention, platform) ==
    LET draw == ~deterministic /\ attn_pdrop > 0
    IN IF draw /\ ~has_rng THEN NoRngStream
       ELSE IF use_flash_attention
            THEN IF platform = "gpu"
                 THEN KernelCall("ring_flash_attention_gpu", draw, draw, attn_pdrop, deterministic)
                 ELSE PlainKernelCall("jax_flash_attn_tpu.flash_attention", draw)
            ELSE PlainKernelCall("ring_attention_standard", draw)

\* The attention paths that handle dropout on attention weights.
DropPaths == {"gptj_dense", "gptj_flash", "opt_dense",
              "mistral_dense", "mistral_flash_gpu", "mistral_flash_tpu"}

AttentionDropout(path, deterministic, rate, has_rng) ==
    CASE path = "gptj_dense" -> GPTJ_dropout(deterministic, rate, has_rng, FALSE)
      [] path = "gptj_flash" -> GPTJ_dropout(deterministic, rate, has_rng, TRUE)
      [] path = "opt_dense" -> OPT_dropout(deterministic, rate, has_rng)
      [] path = "mistral_dense" -> Mistral_dropout(deterministic, rate, has_rng, FALSE, "gpu")
      [] path = "mistral_flash_gpu" -> Mistral_dropout(deterministic, rate, has_rng, TRUE, "gpu")
      [] path = "mistral_flash_tpu" -> Mistral_dropout(deterministic, rate, has_rng, TRUE, "tpu")

DropInit ==
    /\ SessionIdle
    /\ AuxIdle
    /\ kv_call = NoCall /\ shard_call = NoCall /\ mesh_call = NoCall
    /\ config = NoCall /\ rules_call = NoCall
    /\ drop_call \in {[path |-> p, deterministic |-> d, rate |-> r, has_rng |-> h,
                       done |-> FALSE,
                       out |-> DropResult(FALSE, "none", FALSE, TRUE, 0, FALSE, "none", "none")] :
                         p \in DropPaths, d \in BOOLEAN, r \in 0..MaxRate, h \in BOOLEAN}

\* One attention call, up to the kernel.
AttentionCall ==
    /\ drop_call # NoCall
    /\ ~drop_call.done
    /\ drop_call' = [drop_call EXCEPT
                       !.done = TRUE,
                       !.out = AttentionDropout(drop_call.path, drop_call.deterministic,
                                                drop_call.rate, drop_call.has_rng)]
    /\ UNCHANGED <<sessionVars, auxVars, kv_call, shard_call, mesh_call, config, rules_call>>

DropNext == AttentionCall

DropSpec == DropInit /\ [][DropNext]_vars

\* C13: on every attention path dropout on attention weights happens only
\* when the call is not deterministic and the rate is > 0; a kernel that takes
\* a deterministic flag is told to drop (not deterministic, rate > 0) exactly
\* in that case, and the "dropout" stream is asked for a key only in that case.
C13_DropoutOnlyWhenTraining ==
    (drop_call # NoCall /\ drop_call.done) =>
        LET training == ~drop_call.deterministic /\ drop_call.rate > 0
            out == drop_call.out
        IN /\ out.dropout # "none" => training
           /\ out.rng_drawn => training
           /\ out.has_flag =>
                ((~out.kernel_deterministic /\ out.kernel_rate > 0) <=> training)

(* ----------------------- grouped-query expansion ----------------------- *)
MaxKVBatch == 2
MaxKVHeads == 2
MaxRep == 2
MaxHeadDim == 2

\* An array is its shape and its elements in row-major order; indices are
\* 0-based tuples as in the source.
RECURSIVE Prod(_)
Prod(s) == IF s = <<>> THEN 1 ELSE s[1] * Prod(Tail(s))

RECURSIVE Flatten(_, _)
Flatten(idx, shape) ==
    IF idx = <<>> THEN 0
    ELSE idx[1] * Prod(Tail(shape)) + Flatten(Tail(idx), Tail(shape))

Unflatten(i, shape) ==
    [k \in 1..Len(shape) |-> (i \div Prod(SubSeq(shape, k + 1, Len(shape)))) % shape[k]]

At(x, idx) == x.flat[Flatten(idx, x.shape) + 1]

MkArray(shape, F(_)) ==
    [shape |-> shape, flat |-> [i \in 1..Prod(shape) |-> F(Unflatten(i - 1, shape))]]

\* x.transpose(axes), axes given 1-based; the number of axes must be the rank.
Transpose(x, axes) ==
    IF Len(axes) # Len(x.shape)
    THEN [err |-> "TypeError", value |-> x]
    ELSE [err |-> "none",
          value |-> MkArray([k \in 1..Len(axes) |-> x.shape[axes[k]]],
                            LAMBDA j : At(x, [m \in 1..Len(axes) |->
                                                j[CHOOSE k \in 1..Len(axes) : axes[k] = m]]))]

\* x[:, :, newaxis, :, :]
NewAxis3(x) ==
    [shape |-> SubSeq(x.shape, 1, 2) \o <<1>> \o SubSeq(x.shape, 3, Len(x.shape)),
     flat |-> x.flat]

\* jax.numpy.repeat(x, n, axis), axis 1-based
Repeat(x, n, axis) ==
    MkArray([x.shape EXCEPT ![axis] = @ * n],
            LAMBDA j : At(x, [j EXCEPT ![axis] = @ \div n]))

\* x.reshape(shape) of an array with as many elements
Reshape(x, shape) == [shape |-> shape, flat |-> x.flat]

KVResult(err, value) == [err |-> err, value |-> value]

\* repeat_kv_bnsh
repeat_kv_bnsh(x, n_rep) ==
    LET bs == x.shape[1]
        n_kv_heads == x.shape[2]
        s == x.shape[3]
        head_dim == x.shape[4]
    IN IF n_rep = 1 THEN KVResult("none", x)
       ELSE KVResult("none",
                     Reshape(Repeat(NewAxis3(x), n_rep, 3),
                             <<bs, n_kv_heads * n_rep, s, head_dim>>))

\* repeat_kv_bsnh: the input is transposed to [bs, heads, s, head_dim] before
\* the n_rep test; with n_rep = 1 the transposed array is returned, otherwise
\* the second transpose names 4 axes for the 5-dimensional repeated array.
repeat_kv_bsnh(x, n_rep) ==
    LET bs == x.shape[1]
        s == x.shape[2]
        n_kv_heads == x.shape[3]
        head_dim == x.shape[4]
        t1 == Transpose(x, <<1, 3, 2, 4>>)
    IN IF n_rep = 1 THEN KVResult("none", t1.value)
       ELSE LET t2 == Transpose(Repeat(NewAxis3(t1.value), n_rep, 3), <<1, 3, 2, 4>>)
            IN IF t2.err # "none" THEN KVResult(t2.err, x)
               ELSE KVResult("none", Reshape(t2.value, <<bs, s, n_kv_heads * n_rep, head_dim>>))

\* An input array whose elements are all different.
Iota(shape) == [shape |-> shape, flat |-> [i \in 1..Prod(shape) |-> i]]

KVInit ==
    /\ SessionIdle
    /\ AuxIdle
    /\ drop_call = NoCall /\ shard_call = NoCall /\ mesh_call = NoCall
    /\ config = NoCall /\ rules_call = NoCall
    /\ kv_call \in {[fn |-> f, x |-> Iota(IF f = "bnsh" THEN <<b, n, s, d>> ELSE <<b, s, n, d>>),
                     heads |-> n, n_rep |-> r, done |-> FALSE, out |-> KVResult("none", <<>>)] :
                       f \in {"bnsh", "bsnh"}, b \in 1..MaxKVBatch, n \in 1..MaxKVHeads,
                       s \in 1..MaxSeq, d \in 1..MaxHeadDim, r \in 1..MaxRep}

RepeatKV ==
    /\ kv_call # NoCall
    /\ ~kv_call.done
    /\ kv_call' = [kv_call EXCEPT
                     !.done = TRUE,
                     !.out = IF kv_call.fn = "bnsh"
                             THEN repeat_kv_bnsh(kv_call.x, kv_call.n_rep)
                             ELSE repeat_kv_bsnh(kv_call.x, kv_call.n_rep)]
    /\ UNCHANGED <<sessionVars, auxVars, drop_call, shard_call, mesh_call, config, rules_call>>

KVNext == RepeatKV

KVSpec == KVInit /\ [][KVNext]_vars

\* The position of the head axis in the layout (1-based).
HeadAxis(fn) == IF fn = "bnsh" THEN 2 ELSE 3

\* C14: both helpers return an array in the layout of their input, with
\* n_rep times the heads, whose head h is a copy of input head
\* floor(h / n_rep); with n_rep = 1 they return the input unchanged.
C14_BlockReplication ==
    (kv_call # NoCall /\ kv_call.done) =>
        LET x == kv_call.x
            a == HeadAxis(kv_call.fn)
            y == kv_call.out.value
            expected == [x.shape EXCEPT ![a] = @ * kv_call.n_rep]
        IN /\ kv_call.out.err = "none"
           /\ y.shape = expected
           /\ \A i \in 0..(Prod(expected) - 1) :
                LET j == Unflatten(i, expected)
                IN At(y, j) = At(x, [j EXCEPT ![a] = @ \div kv_call.n_rep])
           /\ kv_call.n_rep = 1 => y = x

(* --------------------------- sharding helpers -------------------------- *)
MaxSpecLen == 2
MaxCalls == 2

\* The axis names partition specs use.
SpecNames == {"dp", "fsdp", "mp"}

\* The entries of a PartitionSpec: None, an axis name, a tuple of entries.
PNone == [kind |-> "none"]
PStr(name) == [kind |-> "str", name |-> name]
PTuple(items) == [kind |-> "tuple", items |-> items]

\* A collection that looks at the top-level entries only.
get_names_from_partition_spec_TopLevel(partition_specs) ==
    {partition_specs[i].name : i \in {k \in 1..Len(partition_specs) : partition_specs[k].kind = "str"}}

\* get_names_from_partition_spec: None is skipped, a string is collected,
\* anything else is searched recursively.
RECURSIVE get_names_from_partition_spec(_)
get_names_from_partition_spec(partition_specs) ==
    IF partition_specs = <<>> THEN {}
    ELSE LET item == Head(partition_specs)
             rest == get_names_from_partition_spec(Tail(partition_specs))
         IN CASE item.kind = "none" -> rest
              [] item.kind = "str" -> {item.name} \cup rest
              [] OTHER -> get_names_from_partition_spec(item.items) \cup rest

\* A membership test that accepts the names when any of them is a mesh axis.
names_in_mesh_Any(names, mesh) ==
    names = {} \/ (names \cap mesh) # {}

\* names_in_mesh: the names are a subset of the active physical mesh's axes.
names_in_mesh(names, mesh) == names \subseteq mesh

\* A constraint that piles the new spec on the annotation the tensor carries.
wsc_Accumulate(x, partition_specs, mesh) ==
    IF mesh = {}
    THEN [err |-> "RuntimeError", x |-> x]
    ELSE [err |-> "none", x |-> [x EXCEPT !.sharding = @ \o <<partition_specs>>]]

\* jax's with_sharding_constraint for a PartitionSpec: it needs a non-empty
\* active mesh, and sets the tensor's sharding annotation to the spec.
wsc(x, partition_specs, mesh) ==
    IF mesh = {}
    THEN [err |-> "RuntimeError", x |-> x]
    ELSE [err |-> "none", x |-> [x EXCEPT !.sharding = <<partition_specs>>]]

\* with_sharding_constraint
with_sharding_constraint(x, partition_specs, mesh) ==
    LET axis_names == get_names_from_partition_spec(partition_specs)
    IN IF names_in_mesh(axis_names, mesh)
       THEN LET r == wsc(x, partition_specs, mesh)
            IN [err |-> r.err, applied |-> TRUE, x_in |-> x, x_out |-> r.x]
       ELSE [err |-> "none", applied |-> FALSE, x_in |-> x, x_out |-> x]

PItems ==
    {PNone} \cup {PStr(a) : a \in SpecNames}
            \cup {PTuple(<<PStr(a), PStr(b)>>) : a \in {"dp"}, b \in {"fsdp", "mp"}}

PartitionSpecs == UNION {[1..n -> PItems] : n \in 1..MaxSpecLen}

\* The axis sets of the active mesh: no mesh, and meshes with some of the axes.
Meshes == SUBSET SpecNames

\* A tensor that carries no sharding annotation yet.
Unsharded == [data |-> "x", sharding |-> <<>>]

ShardInit ==
    /\ SessionIdle
    /\ AuxIdle
    /\ drop_call = NoCall /\ kv_call = NoCall /\ mesh_call = NoCall
    /\ config = NoCall /\ rules_call = NoCall
    /\ shard_call \in {[x |-> Unsharded, spec |-> s, mesh |-> m, outs |-> <<>>] :
                         s \in PartitionSpecs, m \in Meshes}

\* x = with_sharding_constraint(x, spec) under the active mesh
WithShardingConstraint ==
    /\ shard_call # NoCall
    /\ Len(shard_call.outs) < MaxCalls
    /\ \A i \in 1..Len(shard_call.outs) : shard_call.outs[i].err = "none"
    /\ \E r \in {with_sharding_constraint(shard_call.x, shard_call.spec, shard_call.mesh)} :
          shard_call' = [shard_call EXCEPT !.x = r.x_out, !.outs = Append(@, r)]
    /\ UNCHANGED <<sessionVars, auxVars, drop_call, kv_call, mesh_call, config, rules_call>>

ShardNext == WithShardingConstraint

ShardSpec == ShardInit /\ [][ShardNext]_vars

MaxDevices == 8
MaxDim == 3

\* Number of -1 entries of a shape.
RECURSIVE Unknowns(_)
Unknowns(dims) ==
    IF dims = <<>> THEN 0
    ELSE (IF dims[1] = -1 THEN 1 ELSE 0) + Unknowns(Tail(dims))

\* Product of the entries other than -1.
RECURSIVE KnownProd(_)
KnownProd(dims) ==
    IF dims = <<>> THEN 1
    ELSE (IF dims[1] = -1 THEN 1 ELSE dims[1]) * KnownProd(Tail(dims))

\* A reshape that gives the -1 slot the whole size.
ReshapeShape_WholePool(size, dims) ==
    IF Unknowns(dims) > 1 THEN [err |-> "TypeError", shape |-> <<>>]
    ELSE IF Unknowns(dims) = 1
         THEN IF size % KnownProd(dims) # 0 THEN [err |-> "TypeError", shape |-> <<>>]
              ELSE [err |-> "none",
                    shape |-> [k \in 1..Len(dims) |-> IF dims[k] = -1 THEN size ELSE dims[k]]]
         ELSE IF KnownProd(dims) # size THEN [err |-> "TypeError", shape |-> <<>>]
              ELSE [err |-> "none", shape |-> dims]

\* array.reshape(dims).shape for an array of `size` elements: at most one -1,
\* which becomes size / product of the others when that divides; without a
\* -1 the product must be the size.
ReshapeShape(size, dims) ==
    IF Unknowns(dims) > 1 THEN [err |-> "TypeError", shape |-> <<>>]
    ELSE IF Unknowns(dims) = 1
         THEN IF size % KnownProd(dims) # 0 THEN [err |-> "TypeError", shape |-> <<>>]
              ELSE [err |-> "none",
                    shape |-> [k \in 1..Len(dims) |->
                                 IF dims[k] = -1 THEN size \div KnownProd(dims) ELSE dims[k]]]
         ELSE IF KnownProd(dims) # size THEN [err |-> "TypeError", shape |-> <<>>]
              ELSE [err |-> "none", shape |-> dims]

MeshResult(err, axis_names, shape) == [err |-> err, axis_names |-> axis_names, shape |-> shape]

\* A construction that rounds the -1 slot down and takes as many devices as
\* the shape needs.
create_mesh_RoundDown(axis_dims, axis_names, device_count) ==
    IF device_count = 0 THEN MeshResult("RuntimeError", <<>>, <<>>)
    ELSE IF Unknowns(axis_dims) > 1 THEN MeshResult("TypeError", <<>>, <<>>)
    ELSE IF Len(axis_names) # Len(axis_dims) THEN MeshResult("ValueError", <<>>, <<>>)
    ELSE MeshResult("none", axis_names,
                    [k \in 1..Len(axis_dims) |->
                       IF axis_dims[k] = -1
                       THEN Max(1, device_count \div KnownProd(axis_dims))
                       ELSE axis_dims[k]])

\* create_mesh on a pool of device_count devices of the backend (0: the
\* backend has no devices and jax.devices raises): the [count, 1] array is
\* reshaped to axis_dims, create_device_mesh lays the devices out in that
\* shape (it needs exactly as many devices as the shape holds), and Mesh binds
\* axis_names to the dimensions in order.
create_mesh(axis_dims, axis_names, device_count) ==
    IF device_count = 0 THEN MeshResult("RuntimeError", <<>>, <<>>)
    ELSE LET resh == ReshapeShape(device_count, axis_dims)
         IN IF resh.err # "none" THEN MeshResult(resh.err, <<>>, <<>>)
            ELSE IF Prod(resh.shape) # device_count THEN MeshResult("ValueError", <<>>, <<>>)
            ELSE IF Len(axis_names) # Len(resh.shape) THEN MeshResult("ValueError", <<>>, <<>>)
            ELSE MeshResult("none", axis_names, resh.shape)

\* JaxBaseClassModel.jax_mesh: create_mesh of the configuration's axis_dims,
\* axis_names and backend.
jax_mesh(cfg, devices) ==
    create_mesh(cfg.axis_dims, cfg.axis_names, devices[cfg.backend])

\* mesh.shape[name]
MeshShape(mesh, name) ==
    mesh.shape[CHOOSE k \in 1..Len(mesh.axis_names) : mesh.axis_names[k] = name]

DefaultAxisNames == <<"dp", "fsdp", "tp", "mp">>

AxisDims == [1..4 -> {-1} \cup 1..MaxDim]

\* The device pools: the default backend has 1..MaxDevices devices, the gpu
\* backend has as many or none.
DevicePools ==
    {[b \in {"", "gpu"} |-> IF b = "" THEN n ELSE g] : n \in {2, 6, MaxDevices}, g \in {0, MaxDevices}}

MeshInit ==
    /\ SessionIdle
    /\ AuxIdle
    /\ drop_call = NoCall /\ kv_call = NoCall /\ shard_call = NoCall
    /\ config = NoCall /\ rules_call = NoCall
    /\ mesh_call \in {[cfg |-> [axis_dims |-> d, axis_names |-> DefaultAxisNames, backend |-> b],
                       devices |-> p, done |-> FALSE, out |-> MeshResult("none", <<>>, <<>>)] :
                         d \in AxisDims, b \in {"", "gpu"}, p \in DevicePools}

\* config.jax_mesh()
JaxMesh ==
    /\ mesh_call # NoCall
    /\ ~mesh_call.done
    /\ mesh_call' = [mesh_call EXCEPT !.done = TRUE,
                                      !.out = jax_mesh(mesh_call.cfg, mesh_call.devices)]
    /\ UNCHANGED <<sessionVars, auxVars, drop_call, kv_call, shard_call, config, rules_call>>

MeshNext == JaxMesh

MeshSpec == MeshInit /\ [][MeshNext]_vars

\* The pool create_mesh sees in the call.
DeviceCount(c) == c.devices[c.cfg.backend]

C18_IndivisibleDimsFail ==
    (/\ mesh_call # NoCall /\ mesh_call.done
     /\ DeviceCount(mesh_call) % KnownProd(mesh_call.cfg.axis_dims) # 0) =>
        (mesh_call.out.err # "none" /\ mesh_call.out.shape = <<>>)

\* Explicit dims 3 and 2 with one -1 on 8 devices: no mesh.
C18_Witness ==
    /\ mesh_call # NoCall /\ mesh_call.done
    /\ mesh_call.cfg.axis_dims = <<3, -1, 2, 1>>
    /\ DeviceCount(mesh_call) = 8
    /\ mesh_call.out.err = "TypeError"

(* ----------------------- configuration upgrade step -------------------- *)
\* A configuration is a function from attribute names to values; Absent
\* marks an attribute the object does not have. Values are abstract: "old" is
\* what the object held before, "default" a parameter default, "new" an
\* argument the caller passed.
Absent == "absent"

ConfigClasses == {"gptj", "opt", "falcon", "mistral", "gpt_neox"}

\* The sharding parameters every add_jax_args assigns first.
ShardingFields == {"axis_dims", "axis_names", "q_ps", "k_ps", "v_ps", "b_ps", "a_ps", "backend"}

\* The keys of `basics` in GPTJConfig.add_jax_args
GPTJ_basics ==
    {"bits", "vocab_size", "n_positions", "n_embd", "n_layer", "n_head", "rotary_dim",
     "n_inner", "activation_function", "resid_pdrop", "embd_pdrop", "attn_pdrop",
     "layer_norm_epsilon", "initializer_range", "use_cache", "bos_token_id",
     "eos_token_id", "tie_word_embeddings", "use_pjit_attention_force",
     "use_flash_attention", "flash_attn_query_chunk_size", "flash_attn_key_chunk_size"}

\* The named keys of `basics` in OPTConfig.add_jax_args
OPT_basics ==
    {"vocab_size", "hidden_size", "num_hidden_layers", "ffn_dim", "max_position_embeddings",
     "do_layer_norm_before", "_remove_final_layer_norm", "word_embed_proj_dim", "dropout",
     "attention_dropout", "num_attention_heads", "activation_function", "layerdrop",
     "init_std", "use_cache", "pad_token_id", "bos_token_id", "eos_token_id", "enable_bias",
     "layer_norm_elementwise_affine", "gradient_checkpointing", "use_pjit_attention_force"}

\* The named keys of `basics` in FalconConfig.add_jax_args
Falcon_basics ==
    {"bits", "vocab_size", "hidden_size", "num_hidden_layers", "num_attention_heads",
     "layer_norm_epsilon", "rope_theta", "initializer_range", "use_cache", "bos_token_id",
     "num_kv_heads", "eos_token_id", "max_position_embeddings", "hidden_dropout",
     "attention_dropout", "multi_query", "alibi", "bias", "parallel_attn", "rope_scaling",
     "use_pjit_attention_force", "gradient_checkpointing", "new_decoder_architecture"}

\* The parameters MistralConfig.add_jax_args assigns besides the sharding ones.
Mistral_jax_fields ==
    {"use_flash_attention", "number_rep_kv", "gradient_checkpointing",
     "use_pjit_attention_force", "use_sacn_mlp", "flash_attn_query_chunk_size",
     "flash_attn_key_chunk_size", "scan_mlp_chunk_size", "attn_pdrop",
     "c_max_position_embeddings", "freq_max_position_embeddings", "bits"}

\* Attributes of a configuration that no add_jax_args names, and the name of
\* an extra keyword argument.
OtherFields == {"num_key_value_heads", "sliding_window"}
ExtraKwarg == "extra_kwarg"

\* The attributes add_jax_args assigns only when the object lacks them.
Guarded(cls) ==
    CASE cls = "gptj" -> GPTJ_basics
      [] cls = "opt" -> OPT_basics \cup {ExtraKwarg}
      [] cls = "falcon" -> Falcon_basics \cup {ExtraKwarg}
      [] OTHER -> {}

\* The attributes add_jax_args assigns from its arguments unconditionally.
Assigned(cls) ==
    IF cls = "mistral" THEN ShardingFields \cup Mistral_jax_fields ELSE ShardingFields

\* Whether add_jax_args ends with `self.from_pt = False`.
SetsFromPt(cls) == cls \in {"gptj", "opt", "falcon", "gpt_neox"}

AllFields ==
    ShardingFields \cup GPTJ_basics \cup OPT_basics \cup Falcon_basics \cup Mistral_jax_fields
        \cup OtherFields \cup {ExtraKwarg, "from_pt"}

\* The value the call binds to a parameter: the passed argument or the default.
ArgValue(args, f) == IF f \in args.passed THEN "new" ELSE "default"

\* An upgrade step that assigns every parameter, guarded or not.
add_jax_args_AssignAll(cls, cfg, args) ==
    [f \in AllFields |->
        IF f = "from_pt" /\ SetsFromPt(cls) THEN "False"
        ELSE IF f \in Assigned(cls) THEN ArgValue(args, f)
        ELSE IF f \in Guarded(cls) /\ (f # ExtraKwarg \/ ExtraKwarg \in args.passed)
             THEN ArgValue(args, f)
        ELSE cfg[f]]

\* add_jax_args: the sharding parameters (in Mistral every parameter) are
\* assigned, each key of `basics` (with the extra keyword arguments in OPT
\* and Falcon) is set only if the object has no such attribute, and from_pt
\* is set to False.
add_jax_args(cls, cfg, args) ==
    [f \in AllFields |->
        IF f = "from_pt" /\ SetsFromPt(cls) THEN "False"
        ELSE IF f \in Assigned(cls) THEN ArgValue(args, f)
        ELSE IF /\ f \in Guarded(cls)
                /\ (f # ExtraKwarg \/ ExtraKwarg \in args.passed)
                /\ cfg[f] = Absent
             THEN ArgValue(args, f)
        ELSE cfg[f]]

\* The arguments of a call: none, the sharding ones, hyperparameters, or all.
ArgChoices ==
    {[passed |-> p] : p \in {{}, ShardingFields, {"axis_dims", "bits", "use_cache", ExtraKwarg},
                             AllFields \ {"from_pt"}}}

\* The attributes a configuration holds before its first upgrade.
PresentChoices(cls) ==
    LET hyper == IF cls = "mistral" THEN Mistral_jax_fields ELSE Guarded(cls) \ {ExtraKwarg}
    IN {h \cup s \cup OtherFields :
          h \in {{}, hyper} \cup {{f} : f \in hyper} \cup {hyper \ {f} : f \in hyper},
          s \in {{}, ShardingFields, {"axis_dims", "axis_names"}}}

ConfigInit ==
    /\ SessionIdle
    /\ AuxIdle
    /\ drop_call = NoCall /\ kv_call = NoCall /\ shard_call = NoCall
    /\ mesh_call = NoCall /\ rules_call = NoCall
    /\ config \in {[cls |-> c, attrs |-> [f \in AllFields |-> IF f \in p THEN "old" ELSE Absent],
                    calls |-> <<>>] :
                      c \in ConfigClasses, p \in UNION {PresentChoices(k) : k \in ConfigClasses}}
    /\ config.attrs \in {[f \in AllFields |-> IF f \in p THEN "old" ELSE Absent] :
                            p \in PresentChoices(config.cls)}

\* config.add_jax_args(**args)
AddJaxArgs ==
    /\ config # NoCall
    /\ Len(config.calls) < MaxCalls
    /\ \E args \in ArgChoices :
          config' = [config EXCEPT !.attrs = add_jax_args(config.cls, config.attrs, args),
                                   !.calls = Append(@, args)]
    /\ UNCHANGED <<sessionVars, auxVars, drop_call, kv_call, shard_call, mesh_call, rules_call>>

ConfigNext == AddJaxArgs

ConfigSpec == ConfigInit /\ [][ConfigNext]_vars

\* C19 as stated: add_jax_args never overwrites an attribute the configuration
\* already has, fills in only absent ones, and a second call changes nothing.
C19_Original ==
    [][(config # NoCall /\ config' # config) =>
        /\ \A f \in AllFields :
             config.attrs[f] # Absent => config'.attrs[f] = config.attrs[f]
        /\ Len(config.calls) >= 1 => config'.attrs = config.attrs]_vars

\* C19 amended: attributes named in `basics` (GPT-J, OPT, Falcon; in OPT and
\* Falcon also extra keyword arguments) are never overwritten and are filled
\* in when absent; the sharding fields (in Mistral every parameter) always
\* take the call's arguments and from_pt becomes False where the class sets
\* it; every other attribute is untouched; a second call with the arguments
\* of the first changes nothing.
C19_GuardedKeptShardingAssigned ==
    [][(config # NoCall /\ config' # config) =>
        LET cls == config.cls
            args == config'.calls[Len(config'.calls)]
        IN /\ \A f \in Guarded(cls) :
                /\ config.attrs[f] # Absent => config'.attrs[f] = config.attrs[f]
                /\ (config.attrs[f] = Absent /\ (f # ExtraKwarg \/ ExtraKwarg \in args.passed))
                      => config'.attrs[f] = ArgValue(args, f)
           /\ \A f \in Assigned(cls) : config'.attrs[f] = ArgValue(args, f)
           /\ SetsFromPt(cls) => config'.attrs["from_pt"] = "False"
           /\ \A f \in AllFields \ (Guarded(cls) \cup Assigned(cls) \cup {"from_pt"}) :
                config'.attrs[f] = config.attrs[f]
           /\ (Len(config.calls) >= 1 /\ args = config.calls[Len(config.calls)])
                => config'.attrs = config.attrs]_vars

\* A GPT-J configuration that held axis_dims and n_head before the call has
\* the caller's axis_dims and its own n_head after it.
C19_Witness ==
    /\ config # NoCall /\ config.cls = "gptj"
    /\ Len(config.calls) = 1
    /\ "axis_dims" \in config.calls[1].passed
    /\ config.attrs["axis_dims"] = "new"
    /\ config.attrs["n_head"] = "old"
    /\ config.attrs["bits"] = "new"

(* ---------------------------- partition rules -------------------------- *)
\* A rule pairs a regular expression with a partition spec. The expression is
\* kept as its source text and as its path components, each the set of its
\* alternatives; '.*' has no component.
Rule(src, comps, spec) ==
    [kind |-> "pair", regex |-> [src |-> src, comps |-> comps], spec |-> spec]

\* Elements of a returned tuple that are not pairs: a string, a PartitionSpec.
StrElem(s) == [kind |-> "str", value |-> s]
SpecElem(spec) == [kind |-> "spec", spec |-> spec]

\* GPTJConfig.get_partition_rules, just_fsdp branch
GPTJ_rules_fsdp ==
    <<Rule("model/wte/embedding", <<{"model"}, {"wte"}, {"embedding"}>>, <<PTuple(<<PStr("fsdp"), PStr("mp")>>)>>),
      Rule("attn/(k_proj|v_proj|q_proj)/kernel", <<{"attn"}, {"k_proj", "v_proj", "q_proj"}, {"kernel"}>>, <<PTuple(<<PStr("fsdp"), PStr("mp")>>)>>),
      Rule("attn/out_proj/kernel", <<{"attn"}, {"out_proj"}, {"kernel"}>>, <<PTuple(<<PStr("fsdp"), PStr("mp")>>)>>),
      Rule("mlp/fc_out/kernel", <<{"mlp"}, {"fc_out"}, {"kernel"}>>, <<PTuple(<<PStr("fsdp"), PStr("mp")>>)>>),
      Rule("mlp/fc_out/bias", <<{"mlp"}, {"fc_out"}, {"bias"}>>, <<PTuple(<<PStr("fsdp"), PStr("mp")>>)>>),
      Rule("mlp/fc_in/kernel", <<{"mlp"}, {"fc_in"}, {"kernel"}>>, <<PTuple(<<PStr("fsdp"), PStr("mp")>>)>>),
      Rule("mlp/fc_in/bias", <<{"mlp"}, {"fc_in"}, {"bias"}>>, <<PTuple(<<PStr("fsdp"), PStr("mp")>>)>>),
      Rule("lm_head/kernel", <<{"lm_head"}, {"kernel"}>>, <<PTuple(<<PStr("fsdp"), PStr("mp")>>)>>),
      Rule("lm_head/bias", <<{"lm_head"}, {"bias"}>>, <<PTuple(<<PStr("fsdp"), PStr("mp")>>)>>),
      Rule(".*", <<>>, <<PNone>>)>>

\* GPTJConfig.get_partition_rules, else branch
GPTJ_rules_tp ==
    <<Rule("model/wte/embedding", <<{"model"}, {"wte"}, {"embedding"}>>, <<PStr("tp"), PTuple(<<PStr("fsdp"), PStr("mp")>>)>>),
      Rule("attn/(k_proj|v_proj|q_proj)/kernel", <<{"attn"}, {"k_proj", "v_proj", "q_proj"}, {"kernel"}>>, <<PTuple(<<PStr("fsdp"), PStr("mp")>>), PStr("tp")>>),
      Rule("attn/out_proj/kernel", <<{"attn"}, {"out_proj"}, {"kernel"}>>, <<PStr("tp"), PTuple(<<PStr("fsdp"), PStr("mp")>>)>>),
      Rule("mlp/fc_out/kernel", <<{"mlp"}, {"fc_out"}, {"kernel"}>>, <<PTuple(<<PStr("fsdp"), PStr("mp")>>), PStr("tp")>>),
      Rule("mlp/fc_out/bias", <<{"mlp"}, {"fc_out"}, {"bias"}>>, <<PTuple(<<PStr("fsdp"), PStr("mp")>>), PStr("tp")>>),
      Rule("mlp/fc_in/kernel", <<{"mlp"}, {"fc_in"}, {"kernel"}>>, <<PStr("tp"), PTuple(<<PStr("fsdp"), PStr("mp")>>)>>),
      Rule("mlp/fc_in/bias", <<{"mlp"}, {"fc_in"}, {"bias"}>>, <<PStr("tp"), PTuple(<<PStr("fsdp"), PStr("mp")>>)>>),
      Rule("lm_head/kernel", <<{"lm_head"}, {"kernel"}>>, <<PStr("tp"), PTuple(<<PStr("fsdp"), PStr("mp")>>)>>),
      Rule("lm_head/bias", <<{"lm_head"}, {"bias"}>>, <<PStr("tp"), PTuple(<<PStr("fsdp"), PStr("mp")>>)>>),
      Rule(".*", <<>>, <<PNone>>)>>

\* FalconConfig.get_partition_rules, `not fully_fsdp` branch
Falcon_rules_tp ==
    <<Rule("word_embeddings/embedding", <<{"word_embeddings"}, {"embedding"}>>, <<PStr("tp"), PTuple(<<PStr("fsdp"), PStr("mp")>>)>>),
      Rule("self_attention/query_key_value/(kernel)", <<{"self_attention"}, {"query_key_value"}, {"kernel"}>>, <<PStr("tp"), PTuple(<<PStr("fsdp"), PStr("mp")>>)>>),
      Rule("self_attention/dense/(kernel)", <<{"self_attention"}, {"dense"}, {"kernel"}>>, <<PStr("tp"), PTuple(<<PStr("fsdp"), PStr("mp")>>)>>),
      Rule("mlp/dense_4h_to_h/(kernel)", <<{"mlp"}, {"dense_4h_to_h"}, {"kernel"}>>, <<PStr("tp"), PTuple(<<PStr("fsdp"), PStr("mp")>>)>>),
      Rule("mlp/dense_h_to_4h/(kernel)", <<{"mlp"}, {"dense_h_to_4h"}, {"kernel"}>>, <<PStr("tp"), PTuple(<<PStr("fsdp"), PStr("mp")>>)>>),
      Rule("lm_head/kernel", <<{"lm_head"}, {"kernel"}>>, <<PStr("tp"), PTuple(<<PStr("fsdp"), PStr("mp")>>)>>),
      Rule("transformer/ln_f/bias", <<{"transformer"}, {"ln_f"}, {"bias"}>>, <<PTuple(<<PStr("fsdp"), PStr("mp")>>)>>),
      Rule("transformer/ln_f/scale", <<{"transformer"}, {"ln_f"}, {"scale"}>>, <<PTuple(<<PStr("fsdp"), PStr("mp")>>)>>),
      Rule("transformer/post_attention_layernorm/scale", <<{"transformer"}, {"post_attention_layernorm"}, {"scale"}>>, <<PTuple(<<PStr("fsdp"), PStr("mp")>>)>>),
      Rule("transformer/post_attention_layernorm/bias", <<{"transformer"}, {"post_attention_layernorm"}, {"bias"}>>, <<PTuple(<<PStr("fsdp"), PStr("mp")>>)>>),
      Rule(".*", <<>>, <<PStr("tp")>>)>>

\* FalconConfig.get_partition_rules, fully_fsdp branch
Falcon_rules_fsdp ==
    <<Rule("word_embeddings/embedding", <<{"word_embeddings"}, {"embedding"}>>, <<PTuple(<<PStr("fsdp"), PStr("mp")>>)>>),
      Rule("self_attention/query_key_value/(kernel|bias)", <<{"self_attention"}, {"query_key_value"}, {"kernel", "bias"}>>, <<PTuple(<<PStr("fsdp"), PStr("mp")>>)>>),
      Rule("self_attention/dense/(kernel|bias)", <<{"self_attention"}, {"dense"}, {"kernel", "bias"}>>, <<PTuple(<<PStr("fsdp"), PStr("mp")>>)>>),
      Rule("mlp/dense_4h_to_h/(kernel|bias)", <<{"mlp"}, {"dense_4h_to_h"}, {"kernel", "bias"}>>, <<PTuple(<<PStr("fsdp"), PStr("mp")>>)>>),
      Rule("mlp/dense_h_to_4h/(kernel|bias)", <<{"mlp"}, {"dense_h_to_4h"}, {"kernel", "bias"}>>, <<PTuple(<<PStr("fsdp"), PStr("mp")>>)>>),
      Rule("lm_head/kernel", <<{"lm_head"}, {"kernel"}>>, <<PTuple(<<PStr("fsdp"), PStr("mp")>>)>>),
      Rule("transformer/ln_f/bias", <<{"transformer"}, {"ln_f"}, {"bias"}>>, <<PTuple(<<PStr("fsdp"), PStr("mp")>>)>>),
      Rule("transformer/ln_f/scale", <<{"transformer"}, {"ln_f"}, {"scale"}>>, <<PTuple(<<PStr("fsdp"), PStr("mp")>>)>>),
      Rule("transformer/post_attention_layernorm/scale", <<{"transformer"}, {"post_attention_layernorm"}, {"scale"}>>, <<PTuple(<<PStr("fsdp"), PStr("mp")>>)>>),
      Rule("transformer/post_attention_layernorm/bias", <<{"transformer"}, {"post_attention_layernorm"}, {"bias"}>>, <<PTuple(<<PStr("fsdp"), PStr("mp")>>)>>),
      Rule(".*", <<>>, <<PTuple(<<PStr("fsdp"), PStr("mp")>>)>>)>>

\* MistralConfig.get_partition_rules, `not fully_fsdp` branch
Mistral_rules_tp ==
    <<Rule("model/embed_tokens/embedding", <<{"model"}, {"embed_tokens"}, {"embedding"}>>, <<PStr("tp"), PTuple(<<PStr("fsdp"), PStr("mp")>>)>>),
      Rule("self_attn/(q_proj|k_proj|v_proj)/kernel", <<{"self_attn"}, {"q_proj", "k_proj", "v_proj"}, {"kernel"}>>, <<PTuple(<<PStr("fsdp"), PStr("mp")>>), PStr("dp")>>),
      Rule("self_attn/o_proj/kernel", <<{"self_attn"}, {"o_proj"}, {"kernel"}>>, <<PStr("tp"), PTuple(<<PStr("fsdp"), PStr("mp")>>)>>),
      Rule("mlp/gate_proj/kernel", <<{"mlp"}, {"gate_proj"}, {"kernel"}>>, <<PTuple(<<PStr("fsdp"), PStr("mp")>>), PStr("dp")>>),
      Rule("mlp/down_proj/kernel", <<{"mlp"}, {"down_proj"}, {"kernel"}>>, <<PStr("tp"), PTuple(<<PStr("fsdp"), PStr("mp")>>)>>),
      Rule("mlp/up_proj/kernel", <<{"mlp"}, {"up_proj"}, {"kernel"}>>, <<PTuple(<<PStr("fsdp"), PStr("mp")>>), PStr("dp")>>),
      Rule("input_layernorm/kernel", <<{"input_layernorm"}, {"kernel"}>>, <<PNone>>),
      Rule("post_attention_layernorm/kernel", <<{"post_attention_layernorm"}, {"kernel"}>>, <<PNone>>),
      Rule("model/norm/kernel", <<{"model"}, {"norm"}, {"kernel"}>>, <<PNone>>),
      Rule("lm_head/kernel", <<{"lm_head"}, {"kernel"}>>, <<PTuple(<<PStr("fsdp"), PStr("mp")>>), PStr("dp")>>),
      Rule(".*", <<>>, <<PNone>>)>>

\* MistralConfig.get_partition_rules, fully_fsdp branch
Mistral_rules_fsdp ==
    <<Rule("model/embed_tokens/embedding", <<{"model"}, {"embed_tokens"}, {"embedding"}>>, <<PTuple(<<PStr("fsdp"), PStr("mp")>>)>>),
      Rule("self_attn/(q_proj|k_proj|v_proj)/kernel", <<{"self_attn"}, {"q_proj", "k_proj", "v_proj"}, {"kernel"}>>, <<PTuple(<<PStr("fsdp"), PStr("mp")>>)>>),
      Rule("self_attn/o_proj/kernel", <<{"self_attn"}, {"o_proj"}, {"kernel"}>>, <<PTuple(<<PStr("fsdp"), PStr("mp")>>)>>),
      Rule("mlp/gate_proj/kernel", <<{"mlp"}, {"gate_proj"}, {"kernel"}>>, <<PTuple(<<PStr("fsdp"), PStr("mp")>>)>>),
      Rule("mlp/down_proj/kernel", <<{"mlp"}, {"down_proj"}, {"kernel"}>>, <<PTuple(<<PStr("fsdp"), PStr("mp")>>)>>),
      Rule("mlp/up_proj/kernel", <<{"mlp"}, {"up_proj"}, {"kernel"}>>, <<PTuple(<<PStr("fsdp"), PStr("mp")>>)>>),
      Rule("input_layernorm/kernel", <<{"input_layernorm"}, {"kernel"}>>, <<PNone>>),
      Rule("post_attention_layernorm/kernel", <<{"post_attention_layernorm"}, {"kernel"}>>, <<PNone>>),
      Rule("model/norm/kernel", <<{"model"}, {"norm"}, {"kernel"}>>, <<PNone>>),
      Rule("lm_head/kernel", <<{"lm_head"}, {"kernel"}>>, <<PTuple(<<PStr("fsdp"), PStr("mp")>>)>>),
      Rule(".*", <<>>, <<PStr("fsdp")>>)>>

\* NeoXConfig.get_partition_rules, `not fully_fsdp` branch
NeoX_rules_tp ==
    <<Rule("wte/embedding", <<{"wte"}, {"embedding"}>>, <<PTuple(<<PStr("fsdp"), PStr("mp")>>), PStr("tp")>>),
      Rule("attention/w_qkv/(kernel|bias)", <<{"attention"}, {"w_qkv"}, {"kernel", "bias"}>>, <<PTuple(<<PStr("fsdp"), PStr("mp")>>), PStr("tp")>>),
      Rule("attention/wo/(kernel|bias)", <<{"attention"}, {"wo"}, {"kernel", "bias"}>>, <<PTuple(<<PStr("fsdp"), PStr("mp")>>), PStr("tp")>>),
      Rule("mlp/dense_h_to_4h/(kernel|bias)", <<{"mlp"}, {"dense_h_to_4h"}, {"kernel", "bias"}>>, <<PTuple(<<PStr("fsdp"), PStr("mp")>>), PStr("tp")>>),
      Rule("mlp/dense_4h_to_h/(kernel|bias)", <<{"mlp"}, {"dense_4h_to_h"}, {"kernel", "bias"}>>, <<PStr("tp"), PTuple(<<PStr("fsdp"), PStr("mp")>>)>>),
      Rule("post_attention_layernorm/(bias|scale)", <<{"post_attention_layernorm"}, {"bias", "scale"}>>, <<PTuple(<<PStr("fsdp"), PStr("mp")>>), PStr("tp")>>),
      Rule("input_layernorm/(bias|scale)", <<{"input_layernorm"}, {"bias", "scale"}>>, <<PTuple(<<PStr("fsdp"), PStr("mp")>>), PStr("tp")>>),
      Rule("transformer/final_layer_norm/(scale|bias)", <<{"transformer"}, {"final_layer_norm"}, {"scale", "bias"}>>, <<PStr("tp"), PTuple(<<PStr("fsdp"), PStr("mp")>>)>>),
      Rule("lm_head/kernel", <<{"lm_head"}, {"kernel"}>>, <<PStr("tp"), PTuple(<<PStr("fsdp"), PStr("mp")>>)>>),
      Rule(".*", <<>>, <<PNone>>)>>

\* NeoXConfig.get_partition_rules, fully_fsdp branch
NeoX_rules_fsdp ==
    <<Rule("embed_in/embedding", <<{"embed_in"}, {"embedding"}>>, <<PTuple(<<PStr("fsdp"), PStr("mp")>>)>>),
      Rule("attention/w_qkv/(kernel|bias)", <<{"attention"}, {"w_qkv"}, {"kernel", "bias"}>>, <<PTuple(<<PStr("fsdp"), PStr("mp")>>)>>),
      Rule("attention/wo/(kernel|bias)", <<{"attention"}, {"wo"}, {"kernel", "bias"}>>, <<PTuple(<<PStr("fsdp"), PStr("mp")>>)>>),
      Rule("mlp/dense_h_to_4h/(kernel|bias)", <<{"mlp"}, {"dense_h_to_4h"}, {"kernel", "bias"}>>, <<PTuple(<<PStr("fsdp"), PStr("mp")>>)>>),
      Rule("mlp/dense_4h_to_h/(kernel|bias)", <<{"mlp"}, {"dense_4h_to_h"}, {"kernel", "bias"}>>, <<PTuple(<<PStr("fsdp"), PStr("mp")>>)>>),
      Rule("post_attention_layernorm/(bias|scale)", <<{"post_attention_layernorm"}, {"bias", "scale"}>>, <<PTuple(<<PStr("fsdp"), PStr("mp")>>)>>),
      Rule("input_layernorm/(bias|scale)", <<{"input_layernorm"}, {"bias", "scale"}>>, <<PTuple(<<PStr("fsdp"), PStr("mp")>>)>>),
      Rule("transformer/final_layer_norm/(scale|bias)", <<{"transformer"}, {"final_layer_norm"}, {"scale", "bias"}>>, <<PTuple(<<PStr("fsdp"), PStr("mp")>>)>>),
      Rule("lm_head/kernel", <<{"lm_head"}, {"kernel"}>>, <<PTuple(<<PStr("fsdp"), PStr("mp")>>)>>),
      Rule(".*", <<>>, <<PNone>>)>>

\* OPTConfig.get_partition_rules, fully_fsdp branch: the parentheses hold one
\* pair without a trailing comma, so the value returned is the pair itself,
\* a 2-tuple of the string '.*' and a PartitionSpec.
OPT_rules_fsdp ==
    <<StrElem(".*"), SpecElem(<<PTuple(<<PStr("fsdp"), PStr("mp")>>)>>)>>

RulesResult(err, rules) == [err |-> err, rules |-> rules]

\* config.get_partition_rules(fully_fsdp), called with the flag by position
\* or, as the trainer calls it, by the keyword fully_fsdp. GPT-J names the
\* parameter just_fsdp; OPT raises NotImplementedError without fully_fsdp.
get_partition_rules(cls, fully_fsdp, by_keyword) ==
    CASE cls = "gptj" ->
           IF by_keyword THEN RulesResult("TypeError", <<>>)
           ELSE RulesResult("none", IF fully_fsdp THEN GPTJ_rules_fsdp ELSE GPTJ_rules_tp)
      [] cls = "opt" ->
           IF ~fully_fsdp THEN RulesResult("NotImplementedError", <<>>)
           ELSE RulesResult("none", OPT_rules_fsdp)
      [] cls = "falcon" ->
           RulesResult("none", IF ~fully_fsdp THEN Falcon_rules_tp ELSE Falcon_rules_fsdp)
      [] cls = "mistral" ->
           RulesResult("none", IF ~fully_fsdp THEN Mistral_rules_tp ELSE Mistral_rules_fsdp)
      [] cls = "gpt_neox" ->
           RulesResult("none", IF ~fully_fsdp THEN NeoX_rules_tp ELSE NeoX_rules_fsdp)

\* re.search(regex, name) on path components: the components of the
\* expression occur in the name, in order and next to each other.
re_search(regex, name) ==
    \E o \in 0..(Len(name) - Len(regex.comps)) :
        \A k \in 1..Len(regex.comps) : name[o + k] \in regex.comps[k]

\* First-match resolution of a parameter name, `for rule, ps in rules`: a
\* pair is tried in order; the 2-character string '.*' unpacks to the rule
\* '.' (which matches any name) and the value '*'; a PartitionSpec element
\* does not unpack to two values.
RECURSIVE FirstMatch(_, _)
FirstMatch(rules, name) ==
    IF rules = <<>> THEN [err |-> "ValueError", value |-> StrElem("none")]
    ELSE LET r == Head(rules)
         IN CASE r.kind = "pair" ->
                   IF re_search(r.regex, name)
                   THEN [err |-> "none", value |-> SpecElem(r.spec)]
                   ELSE FirstMatch(Tail(rules), name)
              [] r.kind = "str" -> [err |-> "none", value |-> StrElem("*")]
              [] OTHER -> [err |-> "ValueError", value |-> StrElem("none")]

\* Flattened parameter names, as path components.
ParamNames ==
    {<<"model", "wte", "embedding">>,
     <<"transformer", "h", "0", "attn", "q_proj", "kernel">>,
     <<"transformer", "h", "0", "mlp", "fc_in", "bias">>,
     <<"transformer", "h", "0", "ln_1", "scale">>,
     <<"model", "layers", "0", "self_attn", "o_proj", "kernel">>,
     <<"transformer", "h", "0", "self_attention", "query_key_value", "kernel">>,
     <<"transformer", "ln_f", "bias">>,
     <<"lm_head", "kernel">>}

RulesInit ==
    /\ SessionIdle
    /\ AuxIdle
    /\ drop_call = NoCall /\ kv_call = NoCall /\ shard_call = NoCall
    /\ mesh_call = NoCall /\ config = NoCall
    /\ rules_call \in {[cls |-> c, fully_fsdp |-> f, by_keyword |-> k, name |-> n, done |-> FALSE,
                        out |-> RulesResult("none", <<>>),
                        match |-> [err |-> "none", value |-> StrElem("none")]] :
                          c \in ConfigClasses, f \in BOOLEAN, k \in BOOLEAN, n \in ParamNames}

\* The rules of the configuration are fetched and a parameter name resolved.
GetPartitionRules ==
    /\ rules_call # NoCall
    /\ ~rules_call.done
    /\ \E r \in {get_partition_rules(rules_call.cls, rules_call.fully_fsdp, rules_call.by_keyword)} :
          rules_call' = [rules_call EXCEPT
                           !.done = TRUE,
                           !.out = r,
                           !.match = IF r.err = "none" THEN FirstMatch(r.rules, rules_call.name)
                                     ELSE @]
    /\ UNCHANGED <<sessionVars, auxVars, drop_call, kv_call, shard_call, mesh_call, config>>

RulesNext == GetPartitionRules

RulesSpec == RulesInit /\ [][RulesNext]_vars

\* C20: for every configuration class and both values of fully_fsdp the call
\* returns a sequence of (regex, partition_spec) pairs whose last pair has the
\* regex '.*', and first-match resolution gives every name a partition spec.
C20_CatchAllLast ==
    (rules_call # NoCall /\ rules_call.done) =>
        LET rules == rules_call.out.rules
        IN /\ rules_call.out.err = "none"
           /\ Len(rules) >= 1
           /\ \A i \in 1..Len(rules) : rules[i].kind = "pair"
           /\ rules[Len(rules)].kind = "pair" /\ rules[Len(rules)].regex.src = ".*"
           /\ rules_call.match.err = "none"
           /\ rules_call.match.value.kind = "spec"


(* --------------------------- attention set-up -------------------------- *)
MaxHidden == 6
MaxCfgHeads == 3

SetupResult(err, head_dim) == [err |-> err, head_dim |-> head_dim]

\* setup() of the attention layer of each architecture: head_dim is the
\* floor division of hidden_size by the head count. OPT raises ValueError and
\* Falcon asserts when the product does not give hidden_size back; GPT-J,
\* Mistral and GPT-NeoX keep the floored head_dim without a test.
AttentionSetup(cls, hidden_size, num_attention_heads) ==
    LET head_dim == hidden_size \div num_attention_heads
    IN CASE cls = "opt" ->
              IF head_dim * num_attention_heads # hidden_size
              THEN SetupResult("ValueError", 0)
              ELSE SetupResult("none", head_dim)
         [] cls = "falcon" ->
              IF head_dim * num_attention_heads = hidden_size
              THEN SetupResult("none", head_dim)
              ELSE SetupResult("AssertionError", 0)
         [] cls \in {"gptj", "mistral", "gpt_neox"} ->
              SetupResult("none", head_dim)

SetupInit ==
    /\ SessionIdle
    /\ UtilIdle
    /\ transform_call = NoCall /\ alibi_call = NoCall /\ rotary_call = NoCall
    /\ names_call = NoCall /\ wrap_call = NoCall /\ backend_cfg = NoCall
    /\ trainer = NoCall
    /\ setup_call \in {[cls |-> c, hidden_size |-> h, num_attention_heads |-> n,
                        done |-> FALSE, out |-> SetupResult("none", 0)] :
                          c \in ConfigClasses, h \in 1..MaxHidden, n \in 1..MaxCfgHeads}

\* The attention layer of a model of the configuration is set up.
Setup ==
    /\ setup_call # NoCall
    /\ ~setup_call.done
    /\ setup_call' = [setup_call EXCEPT
                        !.done = TRUE,
                        !.out = AttentionSetup(setup_call.cls, setup_call.hidden_size,
                                               setup_call.num_attention_heads)]
    /\ UNCHANGED <<sessionVars, utilVars, transform_call, alibi_call, rotary_call,
                   names_call, wrap_call, backend_cfg, trainer>>

SetupNext == Setup

SetupSpec == SetupInit /\ [][SetupNext]_vars

\* C21: every architecture rejects a hidden_size that the head count does not
\* divide: an attention layer that is set up has
\* head_dim * num_attention_heads = hidden_size.
C21_IndivisibleRejected ==
    (setup_call # NoCall /\ setup_call.done /\ setup_call.out.err = "none") =>
        setup_call.out.head_dim * setup_call.num_attention_heads = setup_call.hidden_size


(* -------------------------- checkpoint conversion ---------------------- *)
\* Strings are sequences of characters, so that `in`, slicing, endswith and
\* split act on them as they do in the code.

\* '.weight'
Str_weight == <<".", "w", "e", "i", "g", "h", "t">>

\* '.embedding'
Str_embedding == <<".", "e", "m", "b", "e", "d", "d", "i", "n", "g">>

\* '.kernel'
Str_kernel == <<".", "k", "e", "r", "n", "e", "l">>

\* 'kernel'
Str_kernel_keyword == <<"k", "e", "r", "n", "e", "l">>

\* 'none'
Str_none_keyword == <<"n", "o", "n", "e">>

\* 'wte'
Name_wte == <<"w", "t", "e">>

\* 'word_embeddings'
Name_word_embeddings == <<"w", "o", "r", "d", "_", "e", "m", "b", "e", "d", "d", "i", "n", "g", "s">>

\* 'transformer.wte.weight'
Key_wte_weight == <<"t", "r", "a", "n", "s", "f", "o", "r", "m", "e", "r", ".", "w", "t", "e", ".", "w", "e", "i", "g", "h", "t">>

\* 'word_embeddings.weight'
Key_word_embeddings_weight == <<"w", "o", "r", "d", "_", "e", "m", "b", "e", "d", "d", "i", "n", "g", "s", ".", "w", "e", "i", "g", "h", "t">>

\* 'word_embeddings_layernorm.bias'
Key_word_embeddings_layernorm_bias == <<"w", "o", "r", "d", "_", "e", "m", "b", "e", "d", "d", "i", "n", "g", "s", "_", "l", "a", "y", "e", "r", "n", "o", "r", "m", ".", "b", "i", "a", "s">>

\* 'h.0.mlp.fc_in.weight'
Key_fc_in_weight == <<"h", ".", "0", ".", "m", "l", "p", ".", "f", "c", "_", "i", "n", ".", "w", "e", "i", "g", "h", "t">>

\* 'h.0.ln_1.bias'
Key_ln_1_bias == <<"h", ".", "0", ".", "l", "n", "_", "1", ".", "b", "i", "a", "s">>

\* 'h.0.kernel.weight'
Key_kernel_weight == <<"h", ".", "0", ".", "k", "e", "r", "n", "e", "l", ".", "w", "e", "i", "g", "h", "t">>

\* 'h.0.proj.kernel'
Key_proj_kernel == <<"h", ".", "0", ".", "p", "r", "o", "j", ".", "k", "e", "r", "n", "e", "l">>

\* 'none.kernel.weight'
Key_none_kernel_weight == <<"n", "o", "n", "e", ".", "k", "e", "r", "n", "e", "l", ".", "w", "e", "i", "g", "h", "t">>

SampleKeys ==
    {Key_wte_weight,
     Key_word_embeddings_weight,
     Key_word_embeddings_layernorm_bias,
     Key_fc_in_weight,
     Key_ln_1_bias,
     Key_kernel_weight,
     Key_proj_kernel,
     Key_none_kernel_weight}

EmbeddingLayerNames == {Name_wte, Name_word_embeddings}

MaxEntries == 2

\* sub in s
Contains(s, sub) ==
    \E o \in 0..(Len(s) - Len(sub)) : SubSeq(s, o + 1, o + Len(sub)) = sub

\* s.endswith(suffix)
EndsWith(s, suffix) ==
    /\ Len(s) >= Len(suffix)
    /\ SubSeq(s, Len(s) - Len(suffix) + 1, Len(s)) = suffix

\* s[:-n]
DropLast(s, n) == IF Len(s) > n THEN SubSeq(s, 1, Len(s) - n) ELSE <<>>

\* s.split('.')
RECURSIVE Split(_)
Split(s) ==
    IF ~(\E i \in 1..Len(s) : s[i] = ".") THEN <<s>>
    ELSE LET i == CHOOSE i \in 1..Len(s) :
                      s[i] = "." /\ \A j \in 1..(i - 1) : s[j] # "."
         IN <<SubSeq(s, 1, i - 1)>> \o Split(SubSeq(s, i + 1, Len(s)))

\* All of the keywords ts are in the string and none of ns is.
match_keywords(string, ts, ns) ==
    /\ \A t \in ts : Contains(string, t)
    /\ \A n \in ns : ~Contains(string, n)

\* A source tensor: its element type and its array.
Tensor(dtype, array) == [dtype |-> dtype, array |-> array]

\* tensor.transpose(0, 1)
Transpose01(tensor) == [tensor EXCEPT !.array = Transpose(@, <<2, 1>>).value]

\* The renamed key and the tensor of one entry of the state dict.
ConvertEntry(key, tensor, embedding_layer_name) ==
    IF Contains(key, embedding_layer_name)
    THEN [key |-> DropLast(key, Len(Str_weight)) \o Str_embedding, tensor |-> tensor]
    ELSE IF match_keywords(key, {Str_kernel_keyword}, {Str_none_keyword})
    THEN [key |-> IF EndsWith(key, Str_weight)
                  THEN DropLast(key, Len(Str_weight)) \o Str_kernel
                  ELSE key,
          tensor |-> IF Len(tensor.array.shape) = 2 THEN Transpose01(tensor) ELSE tensor]
    ELSE [key |-> key, tensor |-> tensor]

\* The flat dictionary the loop fills, keyed by the tuples of the segments of
\* the renamed keys, a later entry replacing an earlier one of the same key;
\* unflatten_dict nests it along these paths.
RECURSIVE huggingface_to_easydel(_, _, _)
huggingface_to_easydel(state_dict, embedding_layer_name, dtype) ==
    IF state_dict = <<>> THEN <<>>
    ELSE LET n == Len(state_dict)
             e == ConvertEntry(state_dict[n].key, state_dict[n].tensor, embedding_layer_name)
         IN (Split(e.key) :> [e.tensor EXCEPT !.dtype = dtype])
              @@ huggingface_to_easydel(SubSeq(state_dict, 1, n - 1), embedding_layer_name, dtype)

SampleTensors == {Tensor("float32", Iota(<<2>>)), Tensor("float32", Iota(<<2, 3>>))}

SampleEntries == {[key |-> k, tensor |-> t] : k \in SampleKeys, t \in SampleTensors}

\* State dicts of up to MaxEntries entries with distinct keys, in their order.
StateDicts ==
    {d \in UNION {[1..n -> SampleEntries] : n \in 1..MaxEntries} :
        \A i, j \in 1..Len(d) : i # j => d[i].key # d[j].key}

TransformInit ==
    /\ SessionIdle
    /\ UtilIdle
    /\ setup_call = NoCall /\ alibi_call = NoCall /\ rotary_call = NoCall
    /\ names_call = NoCall /\ wrap_call = NoCall /\ backend_cfg = NoCall
    /\ trainer = NoCall
    /\ transform_call \in {[state_dict |-> d, embedding_layer_name |-> e, done |-> FALSE,
                            flax_dict |-> <<>>] :
                              d \in StateDicts, e \in EmbeddingLayerNames}

\* A state dict is converted.
HuggingfaceToEasydel ==
    /\ transform_call # NoCall
    /\ ~transform_call.done
    /\ transform_call' = [transform_call EXCEPT
                            !.done = TRUE,
                            !.flax_dict = huggingface_to_easydel(transform_call.state_dict,
                                              transform_call.embedding_layer_name, "float16")]
    /\ UNCHANGED <<sessionVars, utilVars, setup_call, alibi_call, rotary_call,
                   names_call, wrap_call, backend_cfg, trainer>>

TransformNext == HuggingfaceToEasydel

TransformSpec == TransformInit /\ [][TransformNext]_vars

\* s with a trailing '.weight' replaced by the suffix, s itself without one
ReplaceWeight(s, suffix) ==
    IF EndsWith(s, Str_weight) THEN DropLast(s, Len(Str_weight)) \o suffix ELSE s

\* The leaf the claim gives an entry: its key and the array it holds.
ClaimedLeaf(key, tensor, embedding_layer_name) ==
    IF Contains(key, embedding_layer_name)
    THEN [path |-> Split(ReplaceWeight(key, Str_embedding)), array |-> tensor.array]
    ELSE IF match_keywords(key, {Str_kernel_keyword}, {Str_none_keyword})
    THEN [path |-> Split(ReplaceWeight(key, Str_kernel)),
          array |-> IF Len(tensor.array.shape) = 2
                    THEN Transpose(tensor.array, <<2, 1>>).value ELSE tensor.array]
    ELSE [path |-> Split(key), array |-> tensor.array]

\* C22: every entry of the state dict is one leaf of the output, keyed by the
\* dot-split segments of its key with a trailing '.weight' replaced by
\* '.embedding' (embedding layer, not transposed) or by '.kernel' (kernel
\* rule, transposed when 2-D), and by the segments of the key itself otherwise.
C22_EntriesConverted ==
    (transform_call # NoCall /\ transform_call.done) =>
        LET d == transform_call.state_dict
            out == transform_call.flax_dict
        IN /\ Cardinality(DOMAIN out) = Len(d)
           /\ \A i \in 1..Len(d) :
                 LET leaf == ClaimedLeaf(d[i].key, d[i].tensor, transform_call.embedding_layer_name)
                 IN /\ leaf.path \in DOMAIN out
                    /\ out[leaf.path].array = leaf.array


(* ------------------------------ alibi bias ----------------------------- *)
MaxAlibiHeads == 8
MaxAlibiSeq == 3
LongSeq == 258

\* The significand of bfloat16, hidden bit included (jnp.bfloat16).
BF16Precision == 8

RECURSIVE Pow2(_)
Pow2(n) == IF n = 0 THEN 1 ELSE 2 * Pow2(n - 1)

\* math.floor(math.log2(n))
RECURSIVE Log2Floor(_)
Log2Floor(n) == IF n < 2 THEN 0 ELSE 1 + Log2Floor(n \div 2)

\* A non-negative integer converted to bfloat16: round to nearest, ties to
\* even, on BF16Precision significant bits.
RoundBF16(m) ==
    IF m < Pow2(BF16Precision) THEN m
    ELSE LET u == Pow2(Log2Floor(m) - (BF16Precision - 1))
             q == m \div u
             r == m % u
         IN IF 2 * r > u \/ (2 * r = u /\ q % 2 = 1) THEN (q + 1) * u ELSE q * u

\* The sum of mask[lo..hi], by halves.
RECURSIVE RangeSum(_, _, _)
RangeSum(mask, lo, hi) ==
    IF lo > hi THEN 0
    ELSE IF lo = hi THEN mask[lo]
    ELSE LET mid == (lo + hi) \div 2
         IN RangeSum(mask, lo, mid) + RangeSum(mask, mid + 1, hi)

\* jnp.cumsum(attention_mask, axis=-1) at position j
CumSum(mask, j) == RangeSum(mask, 1, j)

AlibiResult(err, dtype, alibi) == [err |-> err, dtype |-> dtype, alibi |-> alibi]

\* built_bloom_alibi for one sequence of the batch and a head count up to
\* MaxAlibiHeads. The slope of head h of a power-of-two head count is
\* 2^-(8h/cp2), a power of two, so a bias is kept exactly as num / 2^shift.
\* The slopes are cast to bfloat16 before the product: with an integer mask
\* the multipliers are converted to bfloat16, with a float32 mask the product
\* is float32. A head count that is no power of two reaches
\* jnp.arange(..., dtype=jnp.dtype), whose dtype is the dtype class itself.
built_bloom_alibi(attention_mask, mask_dtype, num_attention_heads) ==
    LET cp2 == Pow2(Log2Floor(num_attention_heads))
        arange_tensor == [j \in 1..Len(attention_mask) |->
                             (CumSum(attention_mask, j) - 1) * attention_mask[j]]
        dtype == IF mask_dtype = "int32" THEN "bfloat16" ELSE "float32"
    IN IF cp2 # num_attention_heads
       THEN AlibiResult("TypeError", dtype, <<>>)
       ELSE AlibiResult("none", dtype,
                [h \in 1..num_attention_heads |->
                    [j \in 1..Len(attention_mask) |->
                        [num |-> IF dtype = "bfloat16" THEN RoundBF16(arange_tensor[j])
                                 ELSE arange_tensor[j],
                         shift |-> (8 * h) \div cp2]]])

\* Padding masks: every mask of up to MaxAlibiSeq positions, and left-padded
\* masks of LongSeq positions.
AlibiMasks ==
    UNION {[1..n -> {0, 1}] : n \in 1..MaxAlibiSeq}
      \cup {[j \in 1..LongSeq |-> IF j <= p THEN 0 ELSE 1] : p \in 0..1}

AlibiInit ==
    /\ SessionIdle
    /\ UtilIdle
    /\ setup_call = NoCall /\ transform_call = NoCall /\ rotary_call = NoCall
    /\ names_call = NoCall /\ wrap_call = NoCall /\ backend_cfg = NoCall
    /\ trainer = NoCall
    /\ alibi_call \in {[attention_mask |-> m, mask_dtype |-> t, num_attention_heads |-> n,
                        done |-> FALSE, out |-> AlibiResult("none", "float32", <<>>)] :
                          m \in AlibiMasks, t \in {"int32", "float32"}, n \in 1..MaxAlibiHeads}

\* The alibi bias of a padding mask is built.
BuildAlibi ==
    /\ alibi_call # NoCall
    /\ ~alibi_call.done
    /\ alibi_call' = [alibi_call EXCEPT
                        !.done = TRUE,
                        !.out = built_bloom_alibi(alibi_call.attention_mask, alibi_call.mask_dtype,
                                                  alibi_call.num_attention_heads)]
    /\ UNCHANGED <<sessionVars, utilVars, setup_call, transform_call, rotary_call,
                   names_call, wrap_call, backend_cfg, trainer>>

AlibiNext == BuildAlibi

AlibiSpec == AlibiInit /\ [][AlibiNext]_vars

\* a < b for two biases num / 2^shift
BiasLess(a, b) == a.num * Pow2(b.shift) < b.num * Pow2(a.shift)

\* C23: the bias is built for every head count; for a fixed head it strictly
\* decreases from a valid key to every valid key farther back from the query,
\* and the multiplier of a valid key is the count of valid tokens before it, 0
\* on a padded position.
C23_AlibiMonotonicDecay ==
    (alibi_call # NoCall /\ alibi_call.done) =>
        LET mask == alibi_call.attention_mask
            out == alibi_call.out
        IN /\ out.err = "none"
           /\ \A h \in 1..alibi_call.num_attention_heads :
                 /\ \A j1, j2 \in 1..Len(mask) :
                       (j1 < j2 /\ mask[j1] = 1 /\ mask[j2] = 1)
                           => BiasLess(out.alibi[h][j1], out.alibi[h][j2])
                 /\ \A j \in 1..Len(mask) :
                       out.alibi[h][j].num = IF mask[j] = 1 THEN CumSum(mask, j - 1) ELSE 0


(* --------------------------- rotary embeddings ------------------------- *)
MaxRotDim == 4
MaxRotPos == 2

\* The sine and cosine of an angle are kept exactly, as the numerators of a
\* rational point of the unit circle over a common scale. The angle of one
\* position step at frequency k (inv_freq[k]):
BaseRotation(k) ==
    IF k % 2 = 1 THEN [cos |-> 3, sin |-> 4, scale |-> 5]
    ELSE [cos |-> 4, sin |-> 3, scale |-> 5]

\* The angle p * inv_freq[k], by the addition formulas.
RECURSIVE RotPow(_, _)
RotPow(b, p) ==
    IF p = 0 THEN [cos |-> 1, sin |-> 0, scale |-> 1]
    ELSE LET r == RotPow(b, p - 1)
         IN [cos |-> r.cos * b.cos - r.sin * b.sin,
             sin |-> r.sin * b.cos + r.cos * b.sin,
             scale |-> r.scale * b.scale]

\* freq[p][k] = p * inv_freq[k], k = 1..head_dim / 2
Freq(p, k) == RotPow(BaseRotation(k), p)

\* The table with each frequency repeated in place, (f1, f1, f2, f2, ...), the
\* layout of the interleaved-pairs convention.
precompute_freq_cis_Interleaved(max_position_embedding, head_dim) ==
    LET half == head_dim \div 2
        embed(p) == [i \in 1..(2 * half) |-> Freq(p, ((i - 1) \div 2) + 1)]
    IN [sin |-> [p \in 0..(max_position_embedding - 1) |->
                    [i \in 1..(2 * half) |-> embed(p)[i].sin]],
        cos |-> [p \in 0..(max_position_embedding - 1) |->
                    [i \in 1..(2 * half) |-> embed(p)[i].cos]]]

\* precompute_freq_cis: embed = concatenate((freq, freq)), the rows of sin(embed)
\* and cos(embed), positions 0..max_position_embedding - 1.
precompute_freq_cis(max_position_embedding, head_dim) ==
    LET half == head_dim \div 2
        embed(p) == [i \in 1..(2 * half) |-> Freq(p, ((i - 1) % half) + 1)]
    IN [sin |-> [p \in 0..(max_position_embedding - 1) |->
                    [i \in 1..(2 * half) |-> embed(p)[i].sin]],
        cos |-> [p \in 0..(max_position_embedding - 1) |->
                    [i \in 1..(2 * half) |-> embed(p)[i].cos]]]

\* rotate_half: concatenate((-x2, x1))
rotate_half(x) ==
    LET half == Len(x) \div 2
    IN [i \in 1..Len(x) |->
           IF i <= Len(x) - half THEN -x[half + i] ELSE x[i - (Len(x) - half)]]

\* apply_rotary_pos_emb of flax_modelling_utils
apply_rotary_pos_emb(tensor, sin_, cos_) ==
    [i \in 1..Len(tensor) |-> tensor[i] * cos_[i] + rotate_half(tensor)[i] * sin_[i]]

\* GPT-J create_sinusoidal_positions: the row of a position holds the sines
\* of its dim / 2 frequencies, then their cosines.
create_sinusoidal_positions(num_pos, dim) ==
    LET sentinel == (dim \div 2) + (dim % 2)
    IN [p \in 0..(num_pos - 1) |->
           [i \in 1..dim |-> IF i <= sentinel THEN Freq(p, i).sin
                             ELSE Freq(p, i - sentinel).cos]]

\* jnp.split(sincos, 2, axis=-1) of one row
SplitSinCos(row) ==
    <<SubSeq(row, 1, Len(row) \div 2), SubSeq(row, Len(row) \div 2 + 1, Len(row))>>

\* GPT-J rotate_every_two: stack((-x[1::2], x[::2]), axis=-1), flattened
rotate_every_two(tensor) ==
    [i \in 1..Len(tensor) |-> IF i % 2 = 1 THEN -tensor[i + 1] ELSE tensor[i - 1]]

\* x.repeat(2) along the last axis
Repeat2(x) == [i \in 1..(2 * Len(x)) |-> x[(i - 1) \div 2 + 1]]

\* GPT-J apply_rotary_pos_emb
GPTJ_apply_rotary_pos_emb(tensor, sincos) ==
    LET sin_pos == Repeat2(sincos[1])
        cos_pos == Repeat2(sincos[2])
    IN [i \in 1..Len(tensor) |->
           tensor[i] * cos_pos[i] + rotate_every_two(tensor)[i] * sin_pos[i]]

Negated(x) == [i \in 1..Len(x) |-> -x[i]]

\* The rotation of x at position p (inverse: by the negated sines).
Rotary(convention, x, p, inverse) ==
    IF convention = "rotate_half"
    THEN LET t == precompute_freq_cis(MaxRotPos + 1, Len(x))
         IN apply_rotary_pos_emb(x, IF inverse THEN Negated(t.sin[p]) ELSE t.sin[p], t.cos[p])
    ELSE LET sincos == SplitSinCos(create_sinusoidal_positions(MaxRotPos + 1, Len(x))[p])
         IN GPTJ_apply_rotary_pos_emb(x, <<IF inverse THEN Negated(sincos[1]) ELSE sincos[1],
                                           sincos[2]>>)

RotDims == {d \in 2..MaxRotDim : d % 2 = 0}

RotaryInit ==
    /\ SessionIdle
    /\ UtilIdle
    /\ setup_call = NoCall /\ transform_call = NoCall /\ alibi_call = NoCall
    /\ names_call = NoCall /\ wrap_call = NoCall /\ backend_cfg = NoCall
    /\ trainer = NoCall
    /\ rotary_call \in {[convention |-> c, p |-> p, x |-> x, stage |-> "input", y |-> x] :
                           c \in {"rotate_half", "rotate_every_two"},
                           p \in 0..MaxRotPos,
                           x \in UNION {[1..d -> -1..1] : d \in RotDims}}

\* The vector is rotated at its position.
Rotate ==
    /\ rotary_call # NoCall
    /\ rotary_call.stage = "input"
    /\ rotary_call' = [rotary_call EXCEPT
                         !.stage = "rotated",
                         !.y = Rotary(rotary_call.convention, rotary_call.x, rotary_call.p, FALSE)]
    /\ UNCHANGED <<sessionVars, utilVars, setup_call, transform_call, alibi_call,
                   names_call, wrap_call, backend_cfg, trainer>>

\* The rotated vector is rotated back at the same position.
RotateBack ==
    /\ rotary_call # NoCall
    /\ rotary_call.stage = "rotated"
    /\ rotary_call' = [rotary_call EXCEPT
                         !.stage = "restored",
                         !.y = Rotary(rotary_call.convention, rotary_call.y, rotary_call.p, TRUE)]
    /\ UNCHANGED <<sessionVars, utilVars, setup_call, transform_call, alibi_call,
                   names_call, wrap_call, backend_cfg, trainer>>

RotaryNext == Rotate \/ RotateBack

RotarySpec == RotaryInit /\ [][RotaryNext]_vars

\* The square of the scale of the table row of position p.
RowScale2(p) == RotPow(BaseRotation(1), p).scale * RotPow(BaseRotation(1), p).scale

\* C24: rotating a vector of even head_dim at position p and rotating it back
\* at the same position (same cosines, negated sines) gives the vector back,
\* in the half-split and in the interleaved-pairs convention.
C24_RotaryRoundTrip ==
    (rotary_call # NoCall /\ rotary_call.stage = "restored") =>
        rotary_call.y = [i \in 1..Len(rotary_call.x) |-> RowScale2(rotary_call.p) * rotary_call.x[i]]

C24_Witness ==
    /\ rotary_call # NoCall
    /\ rotary_call.stage = "restored"
    /\ rotary_call.convention = "rotate_every_two"
    /\ rotary_call.p = 2
    /\ rotary_call.x = <<1, 0, -1, 1>>
    /\ rotary_call.y = <<625, 0, -625, 625>>


\* C25: in a step on an existing cache, the query row r of the step, at
\* absolute position p = (cursor before the step) + r, is allowed to attend to
\* cache slot j only if j <= p, whatever the step length.
C25_CausalUnderCache ==
    [][(/\ arch \in UpdArchs /\ cache # NoCache
        /\ last'.call \in {"call", "apply"} /\ last'.err = "none")
       => \A l \in Layers :
            \A r \in 1..Len(last'.lay[l].final) : \A j \in 1..Len(last'.lay[l].final[r]) :
                last'.lay[l].final[r][j] => (j - 1) <= cache[l].cache_index + (r - 1)]_vars


MaxNest == 2

\* Entries nested up to depth d: None, a name, a pair of entries of depth
\* below d.
RECURSIVE NestedItems(_)
NestedItems(d) ==
    IF d = 0 THEN {PNone} \cup {PStr(a) : a \in SpecNames}
    ELSE NestedItems(d - 1)
           \cup {PTuple(<<a, b>>) : a \in NestedItems(0), b \in NestedItems(d - 1)}

\* Specs of one entry nested up to MaxNest, alone or followed by a flat entry;
\* PartitionSpec('mp') is the one-entry spec of the name.
NestedSpecs ==
    {<<a>> : a \in NestedItems(MaxNest)}
      \cup {<<a, b>> : a \in NestedItems(MaxNest), b \in NestedItems(0)}

\* list(names): the elements of the set, each once, in some order.
ListsOf(S) ==
    {f \in [1..Cardinality(S) -> S] : \A i, j \in 1..Cardinality(S) : i # j => f[i] # f[j]}

NamesInit ==
    /\ SessionIdle
    /\ UtilIdle
    /\ setup_call = NoCall /\ transform_call = NoCall /\ alibi_call = NoCall
    /\ rotary_call = NoCall /\ wrap_call = NoCall /\ backend_cfg = NoCall
    /\ trainer = NoCall
    /\ names_call \in {[spec |-> s, done |-> FALSE, out |-> <<>>] : s \in NestedSpecs}

\* axis_names = get_names_from_partition_spec(partition_specs)
GetNames ==
    /\ names_call # NoCall
    /\ ~names_call.done
    /\ \E out \in ListsOf(get_names_from_partition_spec(names_call.spec)) :
          names_call' = [names_call EXCEPT !.done = TRUE, !.out = out]
    /\ UNCHANGED <<sessionVars, utilVars, setup_call, transform_call, alibi_call,
                   rotary_call, wrap_call, backend_cfg, trainer>>

NamesNext == GetNames

NamesSpec == NamesInit /\ [][NamesNext]_vars

\* The name occurs in the entry, at any depth.
RECURSIVE Occurs(_, _)
Occurs(name, item) ==
    CASE item.kind = "none" -> FALSE
      [] item.kind = "str" -> item.name = name
      [] OTHER -> \E i \in 1..Len(item.items) : Occurs(name, item.items[i])

\* C27: the list returned holds every axis name that occurs anywhere in the
\* spec, at any depth of nesting, once each, and nothing else; None adds
\* nothing and the spec of a single name gives that name alone.
C27_ExactlyTheNames ==
    (names_call # NoCall /\ names_call.done) =>
        LET out == names_call.out
            spec == names_call.spec
        IN /\ \A i, j \in 1..Len(out) : i # j => out[i] # out[j]
           /\ \A a \in SpecNames :
                 (\E i \in 1..Len(out) : out[i] = a)
                     <=> (\E k \in 1..Len(spec) : Occurs(a, spec[k]))
           /\ \A i \in 1..Len(out) : out[i] \in SpecNames
           /\ \A a \in SpecNames : spec = <<PStr(a)>> => out = <<a>>

\* Names at depth two, one of them repeated at the top level, and a None.
C27_Witness ==
    /\ names_call # NoCall /\ names_call.done
    /\ names_call.spec = <<PTuple(<<PStr("dp"), PTuple(<<PNone, PStr("mp")>>)>>), PStr("dp")>>
    /\ names_call.out = <<"mp", "dp">>


(* --------------------------- the wrapper call --------------------------- *)
MaxOutputs == 3

\* The values of the past_key_values argument: None, an empty mapping, a
\* cache.
PastKeyValues == {"None", "empty", "cache"}

\* bool(past_key_values)
Truthy(past_key_values) == past_key_values = "cache"

WrapResult(err, applied, mutable, unpacked, returns_cache) ==
    [err |-> err, applied |-> applied, mutable |-> mutable, unpacked |-> unpacked,
     returns_cache |-> returns_cache]

\* __call__ of the GPT-J, Mistral, Falcon and OPT wrappers, around
\* module.apply: the cache collection is passed and made mutable `if
\* past_key_values`; the result is unpacked as (outputs, variables) `if
\* past_key_values is not None`. Unpacking the plain outputs of n_out
\* elements raises ValueError unless n_out = 2, and then the subscript
\* ["past_key_values"] or ["cache"] of its elements raises TypeError. The OPT
\* wrapper derives missing position_ids, the others raise ValueError.
wrapper_call(cls, past_key_values, pos_given, return_dict, n_out) ==
    IF cls # "opt" /\ ~pos_given /\ past_key_values # "None"
    THEN WrapResult("ValueError", FALSE, FALSE, FALSE, FALSE)
    ELSE LET mutable == Truthy(past_key_values)
         IN IF past_key_values # "None"
            THEN IF mutable
                 THEN WrapResult("none", TRUE, mutable, TRUE, TRUE)
                 ELSE WrapResult(IF n_out # 2 THEN "ValueError" ELSE "TypeError",
                                 TRUE, mutable, TRUE, FALSE)
            ELSE WrapResult("none", TRUE, mutable, FALSE, FALSE)

WrapClasses == {"gptj", "mistral", "falcon", "opt"}

WrapInit ==
    /\ SessionIdle
    /\ UtilIdle
    /\ setup_call = NoCall /\ transform_call = NoCall /\ alibi_call = NoCall
    /\ rotary_call = NoCall /\ names_call = NoCall /\ backend_cfg = NoCall
    /\ trainer = NoCall
    /\ wrap_call \in {[cls |-> c, past_key_values |-> p, pos_given |-> g, return_dict |-> d,
                       n_out |-> n, done |-> FALSE,
                       out |-> WrapResult("none", FALSE, FALSE, FALSE, FALSE)] :
                         c \in WrapClasses, p \in PastKeyValues, g \in BOOLEAN,
                         d \in BOOLEAN, n \in 1..MaxOutputs}

\* model(input_ids, ..., past_key_values=...)
ModelCall ==
    /\ wrap_call # NoCall
    /\ ~wrap_call.done
    /\ wrap_call' = [wrap_call EXCEPT
                       !.done = TRUE,
                       !.out = wrapper_call(wrap_call.cls, wrap_call.past_key_values,
                                            wrap_call.pos_given, wrap_call.return_dict,
                                            wrap_call.n_out)]
    /\ UNCHANGED <<sessionVars, utilVars, setup_call, transform_call, alibi_call,
                   rotary_call, names_call, backend_cfg, trainer>>

WrapNext == ModelCall

WrapSpec == WrapInit /\ [][WrapNext]_vars

\* C28: for every value of past_key_values, a call that reaches module.apply
\* unpacks the result as (outputs, cache) exactly when it made the cache
\* collection mutable, and then returns the outputs with the updated cache;
\* otherwise it returns the plain outputs; unpacking never fails.
C28_MutableIffUnpacked ==
    (wrap_call # NoCall /\ wrap_call.done /\ wrap_call.out.applied) =>
        /\ wrap_call.out.unpacked <=> wrap_call.out.mutable
        /\ wrap_call.out.returns_cache <=> wrap_call.out.mutable
        /\ wrap_call.out.err = "none"


(* ------------------------ the configured backend ------------------------ *)
MaxCfgCalls == 2

\* A Python string as a value that can be told from None.
Str(s) == <<"str", s>>

\* The values of a backend argument: None, the empty string, a platform.
BackendArgs == {None, Str("")} \cup {Str(p) : p \in Platforms}

\* The classes with an add_jax_args of their own.
JaxArgsClasses == {"gptj", "mistral", "falcon", "opt", "gpt_neox"}

\* JaxBaseClassModel.__init__: a missing backend is stored as "".
JaxBaseClassModel_init(backend) == IF backend # None THEN backend ELSE Str("")

\* add_pss stores the argument as it is.
add_pss(backend) == backend

\* The backend that add_jax_args of every configuration class stores: the
\* argument as it is.
add_jax_args_backend(cls, backend) == backend

\* get_backend: the stored value unless it equals "", and then the platform
\* of the default JAX backend.
get_backend(backend, platform) == IF ~(backend = Str("")) THEN backend ELSE Str(platform)

BackendInit ==
    /\ SessionIdle
    /\ UtilIdle
    /\ setup_call = NoCall /\ transform_call = NoCall /\ alibi_call = NoCall
    /\ rotary_call = NoCall /\ names_call = NoCall /\ wrap_call = NoCall
    /\ trainer = NoCall
    /\ backend_cfg \in {[backend |-> JaxBaseClassModel_init(b), given |-> b, platform |-> p,
                         calls |-> 0, op |-> "__init__", returned |-> NoCall] :
                           b \in BackendArgs, p \in Platforms}

BackendUnchanged ==
    UNCHANGED <<sessionVars, utilVars, setup_call, transform_call, alibi_call,
                rotary_call, names_call, wrap_call, trainer>>

\* config.add_pss(backend=b)
AddPssBackend ==
    /\ backend_cfg # NoCall
    /\ backend_cfg.calls < MaxCfgCalls
    /\ \E b \in BackendArgs :
         backend_cfg' = [backend_cfg EXCEPT !.backend = add_pss(b), !.given = b,
                                            !.calls = @ + 1, !.op = "add_pss",
                                            !.returned = NoCall]
    /\ BackendUnchanged

\* config.add_jax_args(backend=b)
AddJaxArgsBackend ==
    /\ backend_cfg # NoCall
    /\ backend_cfg.calls < MaxCfgCalls
    /\ \E cls \in JaxArgsClasses, b \in BackendArgs :
         backend_cfg' = [backend_cfg EXCEPT !.backend = add_jax_args_backend(cls, b), !.given = b,
                                            !.calls = @ + 1, !.op = cls,
                                            !.returned = NoCall]
    /\ BackendUnchanged

\* config.get_backend()
GetBackend ==
    /\ backend_cfg # NoCall
    /\ backend_cfg.returned = NoCall
    /\ backend_cfg' = [backend_cfg EXCEPT
                         !.returned = get_backend(backend_cfg.backend, backend_cfg.platform)]
    /\ BackendUnchanged

BackendNext == AddPssBackend \/ AddJaxArgsBackend \/ GetBackend

BackendSpec == BackendInit /\ [][BackendNext]_vars

\* C29: after construction and any add_pss and add_jax_args calls,
\* get_backend returns the backend last set explicitly, and the platform of
\* the default JAX backend if none was set; never None or the empty string.
C29_BackendInUse ==
    (backend_cfg # NoCall /\ backend_cfg.returned # NoCall) =>
        /\ backend_cfg.returned \notin {None, Str("")}
        /\ backend_cfg.returned =
             IF backend_cfg.given \in {None, Str("")} THEN Str(backend_cfg.platform)
             ELSE backend_cfg.given


(* --------------------------- the training loop -------------------------- *)
MaxEpochs == 3
MaxBatches == 3
MaxStepsArg == 4
MaxStartStep == 2

\* A Python integer as a value that can be told from None.
IntVal(n) == <<"int", n>>

\* configure_dataloader: max_steps_train is num_train_epochs *
\* len(dataloader_train) unless arguments.max_steps is given.
configure_dataloader(num_train_epochs, len_dataloader, max_steps) ==
    IF max_steps = None THEN num_train_epochs * len_dataloader ELSE max_steps[2]

\* The state at the head of train's loops: i is the step of the restored or
\* fresh train state, no epoch has begun.
TrainerInit ==
    /\ SessionIdle
    /\ UtilIdle
    /\ setup_call = NoCall /\ transform_call = NoCall /\ alibi_call = NoCall
    /\ rotary_call = NoCall /\ names_call = NoCall /\ wrap_call = NoCall
    /\ backend_cfg = NoCall
    /\ trainer \in {[num_train_epochs |-> e, len_dataloader |-> n, max_steps |-> m,
                     max_steps_train |-> configure_dataloader(e, n, m),
                     start |-> s, i |-> s, ep |-> 0, batch |-> 0, steps |-> 0,
                     interrupted |-> FALSE, pc |-> "loop"] :
                       e \in 1..MaxEpochs, n \in 0..MaxBatches,
                       m \in {None} \cup {IntVal(k) : k \in 1..MaxStepsArg},
                       s \in 0..MaxStartStep}

TrainerUnchanged ==
    UNCHANGED <<sessionVars, utilVars, setup_call, transform_call, alibi_call,
                rotary_call, names_call, wrap_call, backend_cfg>>

InLoop == trainer # NoCall /\ trainer.pc = "loop"

HasBatch == trainer.ep < trainer.num_train_epochs /\ trainer.batch < trainer.len_dataloader

\* The next batch of the epoch: i += 1, and i < max_steps_train, so the
\* sharded train step runs.
TrainStep ==
    /\ InLoop
    /\ HasBatch
    /\ trainer.i + 1 < trainer.max_steps_train
    /\ trainer' = [trainer EXCEPT !.i = @ + 1, !.steps = @ + 1, !.batch = @ + 1]
    /\ TrainerUnchanged

\* The next batch of the epoch: i += 1, and i >= max_steps_train, so the
\* loop over the batches of this epoch is left.
Break ==
    /\ InLoop
    /\ HasBatch
    /\ ~(trainer.i + 1 < trainer.max_steps_train)
    /\ trainer' = [trainer EXCEPT !.i = @ + 1, !.ep = @ + 1, !.batch = 0]
    /\ TrainerUnchanged

\* The dataloader is exhausted: the next epoch begins.
EpochEnd ==
    /\ InLoop
    /\ trainer.ep < trainer.num_train_epochs
    /\ trainer.batch = trainer.len_dataloader
    /\ trainer' = [trainer EXCEPT !.ep = @ + 1, !.batch = 0]
    /\ TrainerUnchanged

\* The loop over the epochs ends.
Finish ==
    /\ InLoop
    /\ trainer.ep = trainer.num_train_epochs
    /\ trainer' = [trainer EXCEPT !.pc = "done"]
    /\ TrainerUnchanged

\* KeyboardInterrupt anywhere in the loops: caught, training ends.
KeyboardInterrupt ==
    /\ InLoop
    /\ trainer' = [trainer EXCEPT !.pc = "done", !.interrupted = TRUE]
    /\ TrainerUnchanged

TrainerNext == TrainStep \/ Break \/ EpochEnd \/ Finish \/ KeyboardInterrupt

TrainerSpec == TrainerInit /\ [][TrainerNext]_vars

\* C30: train never runs more than max_steps_train train steps, and with
\* max_steps unset, started from step 0 and not interrupted, it ends having
\* run exactly max_steps_train = num_train_epochs * len(dataloader_train)
\* train steps, one for every batch of every epoch.
C30_StepsEqualMaxSteps ==
    trainer # NoCall =>
        /\ trainer.steps <= trainer.max_steps_train
        /\ (/\ trainer.pc = "done" /\ ~trainer.interrupted
            /\ trainer.max_steps = None /\ trainer.start = 0)
           => trainer.steps = trainer.num_train_epochs * trainer.len_dataloader
====
